---- MODULE Spec2Model ----
(***************************************************************************)
(* State-machine model of the Home controller of the legal_doc client      *)
(* (client/src/pages/Home/index.tsx): the session list, the route's        *)
(* session id, the message and document lists, the send-message episode    *)
(* with its streamed-response loop, and the session-list operations.       *)
(*                                                                         *)
(* Text is modelled as a sequence of one-character strings, a response     *)
(* body as a sequence of transport chunks, each a sequence of bytes.       *)
(***************************************************************************)
EXTENDS Naturals, Integers, Sequences, FiniteSets, TLC

VARIABLES
    urlSessionId,   \* useParams().id, or None on the index route
    sessions,       \* useState<ChatSession[]>
    messages,       \* useState<Message[]>
    documents,      \* useState<DocumentMetadata[]>
    isLoading,      \* useState(false)
    eps,            \* the invocations of handleSendMessage, by slot
    reqs,           \* the other requests in flight (fetches, delete, rename)
    srvSessions,    \* the server's session list, most recent first
    srvMsgs,        \* the server's message list of each session
    srvDocs,        \* the server's document list of each session
    srvNextId,      \* how many sessions the server has created so far
    isUploading,    \* useState(false)
    uploadProgress, \* useState("")
    ups,            \* the invocations of handleFileUpload, by slot
    alerts,         \* history: the alert() calls made, in order
    deletedActive,  \* history: the active session was deleted and the user has not acted since
    userActs,       \* history: how many actions the user has taken
    faults,         \* history: how many requests have failed in transport or at the server
    declined        \* history: the deletes the user asked for that the handler returned from

vars == <<urlSessionId, sessions, messages, documents, isLoading, eps, reqs,
          srvSessions, srvMsgs, srvDocs, srvNextId, isUploading, uploadProgress, ups, alerts,
          deletedActive, userActs, faults, declined>>

(***************************************************************************)
(* Bounds of the model.                                                    *)
(***************************************************************************)
MaxSend == 2        \* invocations of handleSendMessage in one run
MaxReq == 2         \* fetch / delete / rename requests in flight at once
MaxChunks == 3      \* transport chunks a streamed body is cut into
MaxUser == 2        \* actions the user takes in one run
MaxFaults == 1      \* requests that fail in transport or with a server error in one run
MaxCreate == 1      \* sessions the server creates in one run
MaxUpload == 2      \* invocations of handleFileUpload in one run

None == "none"              \* no route id (urlSessionId undefined)
Undefined == "undefined"    \* a property read that finds no such property

(***************************************************************************)
(* Strings.                                                                *)
(***************************************************************************)
NL == "\n"
QUOTE == "\""
BACKSLASH == "\\"
WhiteSpace == {" ", NL, "\t", "\r"}

\* String.prototype.indexOf(pat), 1-based; 0 when pat does not occur.
IndexOf(s, pat) ==
    LET hits == {i \in 1..(Len(s) + 1) : i + Len(pat) - 1 <= Len(s)
                                         /\ SubSeq(s, i, i + Len(pat) - 1) = pat}
    IN IF hits = {} THEN 0 ELSE CHOOSE i \in hits : \A j \in hits : i <= j

\* String.prototype.split(sep) for a non-empty separator.
RECURSIVE Split(_, _)
Split(s, sep) ==
    LET i == IndexOf(s, sep)
    IN IF i = 0 THEN <<s>>
       ELSE <<SubSeq(s, 1, i - 1)>> \o Split(SubSeq(s, i + Len(sep), Len(s)), sep)

StartsWith(s, p) == Len(s) >= Len(p) /\ SubSeq(s, 1, Len(p)) = p

\* String.prototype.slice(from) with a 0-based start.
SliceFrom(s, from) == SubSeq(s, from + 1, Len(s))

\* String.prototype.slice(0, to).
SliceTo(s, to) == SubSeq(s, 1, IF to < Len(s) THEN to ELSE Len(s))

\* String.prototype.trim().
RECURSIVE TrimLeft(_)
TrimLeft(s) ==
    IF s # <<>> /\ Head(s) \in WhiteSpace THEN TrimLeft(Tail(s)) ELSE s

RECURSIVE TrimRight(_)
TrimRight(s) ==
    IF s # <<>> /\ s[Len(s)] \in WhiteSpace THEN TrimRight(SubSeq(s, 1, Len(s) - 1)) ELSE s

Trim(s) == TrimRight(TrimLeft(s))

RECURSIVE Concat(_)
Concat(ss) == IF ss = <<>> THEN <<>> ELSE Head(ss) \o Concat(Tail(ss))

(***************************************************************************)
(* new TextDecoder().decode(value): every call decodes its chunk alone     *)
(* (no stream flag), so a multi-byte character cut by a chunk boundary     *)
(* decodes to replacement characters.  The bytes of the model are ASCII    *)
(* characters and the two bytes of U+00E9.                                 *)
(***************************************************************************)
ByteC3 == "xC3"
ByteA9 == "xA9"
CharE9 == "U+00E9"
CharFFFD == "U+FFFD"

RECURSIVE Utf8Decode(_)
Utf8Decode(bytes) ==
    IF bytes = <<>> THEN <<>>
    ELSE IF Head(bytes) = ByteC3
         THEN IF Len(bytes) >= 2 /\ bytes[2] = ByteA9
              THEN <<CharE9>> \o Utf8Decode(SubSeq(bytes, 3, Len(bytes)))
              ELSE <<CharFFFD>> \o Utf8Decode(Tail(bytes))
    ELSE IF Head(bytes) = ByteA9
         THEN <<CharFFFD>> \o Utf8Decode(Tail(bytes))
    ELSE <<Head(bytes)>> \o Utf8Decode(Tail(bytes))

(***************************************************************************)
(* JSON.parse(dataStr) and the member data.token of its result.  The grammar*)
(* covered is the one the streamed records use: optional white space       *)
(* around an object with one string member, {"key":"value"}, or an empty   *)
(* object.  Anything else throws.                                          *)
(***************************************************************************)
StringBody(s) == \A i \in 1..Len(s) : s[i] \notin {QUOTE, BACKSLASH, NL, "\t", "\r"}

JSONParse(dataStr) ==
    LET t == Trim(dataStr)
        n == Len(t)
        k == IndexOf(SubSeq(t, 3, n), <<QUOTE>>)     \* the quote closing the key
        key == SubSeq(t, 3, k + 1)
        rest == SubSeq(t, k + 3, n)                  \* after the key's closing quote
        val == SubSeq(rest, 3, Len(rest) - 2)
    IN IF t = <<"{", "}">> THEN [throws |-> FALSE, hasToken |-> FALSE, token |-> <<>>]
       ELSE IF /\ n >= 7
               /\ SubSeq(t, 1, 2) = <<"{", QUOTE>>
               /\ k > 0
               /\ StringBody(key)
               /\ Len(rest) >= 4
               /\ SubSeq(rest, 1, 2) = <<":", QUOTE>>
               /\ SubSeq(rest, Len(rest) - 1, Len(rest)) = <<QUOTE, "}">>
               /\ StringBody(val)
            THEN [throws |-> FALSE,
                  hasToken |-> (key = <<"t", "o", "k", "e", "n">>),
                  token |-> IF key = <<"t", "o", "k", "e", "n">> THEN val ELSE <<>>]
            ELSE [throws |-> TRUE, hasToken |-> FALSE, token |-> <<>>]

\* JavaScript truthiness of data.token: undefined and "" are falsy.
Truthy(data) == data.hasToken /\ data.token # <<>>

DataPrefix == <<"d", "a", "t", "a", ":", " ">>
DoneSentinel == <<"[", "D", "O", "N", "E", "]">>
RecordSep == <<NL, NL>>

(***************************************************************************)
(* The body of the for-loop over the lines of one chunk.  The accumulator  *)
(* holds assistantMsg.content, the number of setMessages calls made and    *)
(* the number of fetchSessions calls made; `break` ends the loop over the  *)
(* lines of this chunk.                                                    *)
(***************************************************************************)
\* ProcessLines with the try/catch around JSON.parse removed: a payload that
\* does not parse ends the processing of the chunk.
RECURSIVE ProcessLinesAbort(_, _)
ProcessLinesAbort(lines, acc) ==
    IF lines = <<>> THEN acc
    ELSE LET line == Head(lines)
         IN IF ~StartsWith(line, DataPrefix) THEN ProcessLinesAbort(Tail(lines), acc)
            ELSE LET dataStr == SliceFrom(line, 6)
                     data == JSONParse(dataStr)
                 IN IF dataStr = DoneSentinel
                    THEN [acc EXCEPT !.refresh = @ + 1]
                    ELSE IF data.throws THEN acc
                    ELSE IF Truthy(data)
                    THEN ProcessLinesAbort(Tail(lines),
                                           [acc EXCEPT !.content = @ \o data.token,
                                                       !.updates = @ + 1])
                    ELSE ProcessLinesAbort(Tail(lines), acc)

RECURSIVE ProcessLines(_, _)
ProcessLines(lines, acc) ==
    IF lines = <<>> THEN acc
    ELSE LET line == Head(lines)
         IN IF ~StartsWith(line, DataPrefix) THEN ProcessLines(Tail(lines), acc)
            ELSE LET dataStr == SliceFrom(line, 6)
                     data == JSONParse(dataStr)
                 IN IF dataStr = DoneSentinel
                    THEN [acc EXCEPT !.refresh = @ + 1]
                    ELSE IF ~data.throws /\ Truthy(data)
                    THEN ProcessLines(Tail(lines),
                                      [acc EXCEPT !.content = @ \o data.token,
                                                  !.updates = @ + 1])
                    ELSE ProcessLines(Tail(lines), acc)

\* One iteration of the while-loop for a chunk `value` that was read.
ProcessChunk(content, value) ==
    LET chunk == Utf8Decode(value)
        lines == Split(chunk, RecordSep)
    IN ProcessLines(lines, [content |-> content, updates |-> 0, refresh |-> 0])

(***************************************************************************)
(* Data of the model: the sessions the server holds at start, the ids it   *)
(* assigns to created sessions, the texts the user submits and the bodies  *)
(* the server streams.                                                     *)
(***************************************************************************)
NewIds == <<"n1", "n2", "n3", "n4">>
InitialIds == {"s1", "s2"}
AllIds == InitialIds \cup {NewIds[i] : i \in 1..Len(NewIds)}

Texts == {<<"h", "i">>, <<" ">>}
FileA == <<"a", ".", "p", "d", "f">>
FileB == <<"b">>
FileC == <<"c">>
Files == {FileA}

\* The file lists the user picks in the file dialog.
FileLists == {<<FileB>>, <<FileA, FileB, FileC>>}
NewTitles == {<<"T">>}
TitleLen == 30

Message(role, content, sid, by) ==
    [role |-> role, content |-> content, sid |-> sid, by |-> by]

\* A message as the server stores and returns it.
ServerMessage(role, content, sid) == Message(role, content, sid, 0)

ChatSession(id, title) == [id |-> id, title |-> title]

\* sid: history field naming the session the document belongs to.
DocumentMetadata(filename, sid) == [filename |-> filename, sid |-> sid]

TokenRecord(tok) ==
    DataPrefix \o <<"{", QUOTE, "t", "o", "k", "e", "n", QUOTE, ":", QUOTE>>
               \o tok \o <<QUOTE, "}">> \o RecordSep

DoneRecord == DataPrefix \o DoneSentinel \o RecordSep

\* The bodies streamed in the controller's specification, already cut into chunks.
StreamBodies ==
    { <<TokenRecord(<<"o", "k">>), DoneRecord>> }

ErrorContent ==
    <<"E", "r", "r", "o", "r", ":", " ", "F", "a", "i", "l", "e", "d", " ", "t", "o", " ",
      "g", "e", "t", " ", "r", "e", "s", "p", "o", "n", "s", "e", ".">>

TitleSuffix == <<".", ".", ".">>

(***************************************************************************)
(* Records of the model.                                                   *)
(***************************************************************************)
\* A slot of handleSendMessage that was not invoked yet.
IdleEpisode ==
    [pc |-> "idle", target |-> None, text |-> <<>>, rest |-> <<>>, content |-> <<>>,
     resp |-> "none", newId |-> None,
     lazy |-> FALSE, created |-> 0, doneSeen |-> FALSE, failed |-> FALSE, body |-> <<>>]

InFlight(e) == eps[e].pc \notin {"idle", "done"}

\* The payload of a response, empty where the response carries none.
NoData == [sessions |-> <<>>, messages |-> <<>>, documents |-> <<>>, omitted |-> {}]

\* The outcome of an upload, as the response of POST /chats/:id/upload carries it.
UploadResult(sessionId, uploaded, skipped, failed) ==
    [session_id |-> sessionId,
     uploaded_count |-> uploaded,
     skipped_count |-> Len(skipped), skipped_files |-> skipped,
     failed_count |-> Len(failed), failed_files |-> failed]

NoResult == UploadResult(None, 0, <<>>, <<>>)

\* `data[name] || []`: a member the response omits reads undefined.
OrEmpty(data, name) == IF name \in data.omitted THEN <<>> ELSE data[name]

\* A request other than those of handleSendMessage, from its issue to its handler.
Request(kind, sid, url, title) ==
    [kind |-> kind, sid |-> sid, url |-> url, title |-> title,
     phase |-> "sent", data |-> NoData]

\* The model bounds the requests in flight, and holds no two identical ones.
CanIssue(rq, new) == new \notin rq /\ Cardinality(rq) < MaxReq

\* fetchSessions() up to its await.
FetchSessionsCall == Request("list", None, None, <<>>)

\* fetchSessionData(sessionId) up to its await.
FetchSessionDataCall(sessionId) == Request("fetch", sessionId, None, <<>>)

\* A property read s[name] on a session object.
Prop(s, name) == IF name \in DOMAIN s THEN s[name] ELSE Undefined

SrvIds == {srvSessions[i].id : i \in 1..Len(srvSessions)}
ListedIds == {Prop(sessions[i], "id") : i \in 1..Len(sessions)}

(***************************************************************************)
(* Initial state: Home right after mount, on the index route or on the     *)
(* route of a session.  The mount effect has called fetchSessions() and    *)
(* the route effect has run.                                               *)
(***************************************************************************)
InitServer ==
    /\ srvSessions = <<ChatSession("s1", <<"A">>), ChatSession("s2", <<"B">>)>>
    /\ srvMsgs = [id \in AllIds |->
                    IF id \in InitialIds
                    THEN <<ServerMessage("assistant", <<"h">>, id)>> ELSE <<>>]
    /\ srvDocs = [id \in AllIds |->
                    IF id = "s1" THEN <<DocumentMetadata(FileA, id)>> ELSE <<>>]
    /\ srvNextId = 0

\* A slot of handleFileUpload that was not invoked yet.
IdleUpload ==
    [pc |-> "idle", target |-> None, isNew |-> FALSE, files |-> <<>>, resp |-> "none",
     result |-> NoResult, data |-> NoData,
     i |-> 0, sent |-> <<>>, uploadedCount |-> 0, newId |-> None, quiet |-> FALSE]

InitUpload ==
    /\ isUploading = FALSE
    /\ uploadProgress = <<>>
    /\ ups = [u \in 1..MaxUpload |-> IdleUpload]
    /\ alerts = <<>>

InitHistory ==
    /\ deletedActive = FALSE
    /\ userActs = 0
    /\ faults = 0
    /\ declined = <<>>

Init ==
    /\ urlSessionId \in {None, "s1"}
    /\ sessions = <<>>
    /\ messages = <<>>
    /\ documents = <<>>
    /\ isLoading = FALSE
    /\ eps = [e \in 1..MaxSend |-> IdleEpisode]
    /\ reqs = IF urlSessionId = None
              THEN {FetchSessionsCall}
              ELSE {FetchSessionsCall, FetchSessionDataCall(urlSessionId)}
    /\ InitServer
    /\ InitUpload
    /\ InitHistory

srvVars == <<srvSessions, srvMsgs, srvDocs, srvNextId>>

\* A request fails in transport or with a server error, within the bound of the model.
\* Only the deletes the handler returns from write the history declined.
Fault == faults < MaxFaults /\ faults' = faults + 1 /\ UNCHANGED declined
NoFault == UNCHANGED <<faults, declined>>
FaultIf(failed) == IF failed THEN Fault ELSE NoFault

upVars == <<isUploading, uploadProgress, ups, alerts>>

\* A step of the program or of the server outside handleFileUpload: the user
\* does nothing.
NoUserAct == UNCHANGED userActs /\ UNCHANGED upVars

\* A step the user takes outside the file dialog, within the bound of the model.
UserAct == userActs < MaxUser /\ userActs' = userActs + 1 /\ NoFault /\ UNCHANGED upVars

(***************************************************************************)
(* Navigation.  The route effect (useEffect on urlSessionId) runs with     *)
(* the render that follows navigate(): it fetches the session when the id  *)
(* changed to a session id and clears both lists when it changed to none.  *)
(***************************************************************************)
EffectFetches(old, new) == new # None /\ new # old
\* The else branch of the route effect with the test reading the previous id.
EffectClearsStale(old, new) == old = None /\ new # None

EffectClears(old, new) == new = None /\ old # None

EffectReqs(old, new, rq) ==
    IF EffectFetches(old, new) THEN rq \cup {FetchSessionDataCall(new)} ELSE rq

EffectAllowed(old, new, rq) ==
    EffectFetches(old, new) => CanIssue(rq, FetchSessionDataCall(new))

\* handleSelectSession(id), called by the sidebar for a listed session.
SelectSession(id) ==
    /\ UserAct
    /\ id \in ListedIds
    /\ id # Undefined
    /\ EffectAllowed(urlSessionId, id, reqs)
    /\ urlSessionId' = id
    /\ reqs' = EffectReqs(urlSessionId, id, reqs)
    /\ deletedActive' = FALSE
    /\ UNCHANGED <<sessions, messages, documents, isLoading, eps, srvVars>>

\* handleNewChat().
NewChat ==
    /\ UserAct
    /\ urlSessionId # None
    /\ urlSessionId' = None
    /\ messages' = IF EffectClears(urlSessionId, None) THEN <<>> ELSE messages
    /\ documents' = IF EffectClears(urlSessionId, None) THEN <<>> ELSE documents
    /\ UNCHANGED <<sessions, isLoading, eps, reqs, srvVars, deletedActive>>

(***************************************************************************)
(* fetchSessions.                                                          *)
(***************************************************************************)
Respond(r, phase, data) == (reqs \ {r}) \cup {[r EXCEPT !.phase = phase, !.data = data]}

\* GET /chats at the server, or its failure in transport.
ServeList(r) ==
    /\ NoUserAct
    /\ r \in reqs /\ r.kind = "list" /\ r.phase = "sent"
    /\ \E out \in {"ok", "bad", "throw"} :
          /\ FaultIf(out # "ok")
          /\ reqs' = Respond(r, out, IF out = "ok"
                                           THEN [NoData EXCEPT !.sessions = srvSessions]
                                           ELSE NoData)
    /\ UNCHANGED <<urlSessionId, sessions, messages, documents, isLoading, eps, srvVars,
                   deletedActive>>

\* FetchSessionsDone emptying the session list when the fetch failed.
FetchSessionsDoneClears(r) ==
    /\ NoFault
    /\ NoUserAct
    /\ r \in reqs /\ r.kind = "list" /\ r.phase # "sent"
    /\ reqs' = reqs \ {r}
    /\ sessions' = IF r.phase = "ok" THEN r.data.sessions ELSE <<>>
    /\ UNCHANGED <<urlSessionId, messages, documents, isLoading, eps, srvVars, deletedActive>>

\* fetchSessions() from its await on.
FetchSessionsDone(r) ==
    /\ NoFault
    /\ NoUserAct
    /\ r \in reqs /\ r.kind = "list" /\ r.phase # "sent"
    /\ reqs' = reqs \ {r}
    /\ sessions' = IF r.phase = "ok" THEN r.data.sessions ELSE sessions
    /\ UNCHANGED <<urlSessionId, messages, documents, isLoading, eps, srvVars, deletedActive>>

(***************************************************************************)
(* fetchSessionData.                                                       *)
(***************************************************************************)
\* The lists of a session that are empty at the server: a response may omit them.
EmptyLists(sid) ==
    {name \in {"messages", "documents"} :
        (name = "messages" /\ srvMsgs[sid] = <<>>) \/ (name = "documents" /\ srvDocs[sid] = <<>>)}

\* GET /chats/:id at the server: 404 on an unknown id.
ServeFetch(r) ==
    /\ NoUserAct
    /\ r \in reqs /\ r.kind = "fetch" /\ r.phase = "sent"
    /\ \/ /\ r.sid \in SrvIds
          /\ \E omitted \in {{}, EmptyLists(r.sid)} :
                reqs' = Respond(r, "ok", [NoData EXCEPT !.messages = srvMsgs[r.sid],
                                                        !.documents = srvDocs[r.sid],
                                                        !.omitted = omitted])
          /\ NoFault
       \/ /\ r.sid \notin SrvIds
          /\ reqs' = Respond(r, "bad", NoData)
          /\ NoFault
       \/ /\ reqs' = Respond(r, "throw", NoData)
          /\ Fault
    /\ UNCHANGED <<urlSessionId, sessions, messages, documents, isLoading, eps, srvVars,
                   deletedActive>>

\* FetchSessionDataDone without the else branch of `if (res.ok)`: a response
\* that is not ok is ignored.
FetchSessionDataDoneNoRedirect(r) ==
    /\ NoFault
    /\ NoUserAct
    /\ r \in reqs /\ r.kind = "fetch" /\ r.phase # "sent"
    /\ reqs' = reqs \ {r}
    /\ IF r.phase = "ok"
       THEN /\ messages' = OrEmpty(r.data, "messages")
            /\ documents' = OrEmpty(r.data, "documents")
       ELSE UNCHANGED <<messages, documents>>
    /\ UNCHANGED <<urlSessionId, sessions, isLoading, eps, srvVars, deletedActive>>

\* FetchSessionDataDone merging the fetched documents into the list shown
\* instead of replacing it.
FetchSessionDataDoneMerge(r) ==
    /\ NoFault
    /\ NoUserAct
    /\ r \in reqs /\ r.kind = "fetch" /\ r.phase # "sent"
    /\ reqs' = reqs \ {r}
    /\ \/ /\ r.phase = "ok"
          /\ messages' = OrEmpty(r.data, "messages")
          /\ documents' = documents \o OrEmpty(r.data, "documents")
          /\ UNCHANGED urlSessionId
       \/ /\ r.phase = "bad"
          /\ urlSessionId' = None
          /\ messages' = IF EffectClears(urlSessionId, None) THEN <<>> ELSE messages
          /\ documents' = IF EffectClears(urlSessionId, None) THEN <<>> ELSE documents
       \/ /\ r.phase = "throw"
          /\ UNCHANGED <<urlSessionId, messages, documents>>
    /\ UNCHANGED <<sessions, isLoading, eps, srvVars, deletedActive>>

\* fetchSessionData(sessionId) from its await on.
FetchSessionDataDone(r) ==
    /\ NoFault
    /\ NoUserAct
    /\ r \in reqs /\ r.kind = "fetch" /\ r.phase # "sent"
    /\ reqs' = reqs \ {r}
    /\ \/ /\ r.phase = "ok"
          /\ messages' = OrEmpty(r.data, "messages")
          /\ documents' = OrEmpty(r.data, "documents")
          /\ UNCHANGED urlSessionId
       \/ /\ r.phase = "bad"
          /\ urlSessionId' = None
          /\ messages' = IF EffectClears(urlSessionId, None) THEN <<>> ELSE messages
          /\ documents' = IF EffectClears(urlSessionId, None) THEN <<>> ELSE documents
       \/ /\ r.phase = "throw"
          /\ UNCHANGED <<urlSessionId, messages, documents>>
    /\ UNCHANGED <<sessions, isLoading, eps, srvVars, deletedActive>>

(***************************************************************************)
(* handleDeleteSession.                                                    *)
(***************************************************************************)
\* handleDeleteSession(sessionId) up to its await, the user confirming.  The
\* handler keeps the urlSessionId of the render it was created in.
DeleteSession(id) ==
    /\ UserAct
    /\ id \in ListedIds
    /\ id # Undefined
    /\ CanIssue(reqs, Request("delete", id, urlSessionId, <<>>))
    /\ reqs' = reqs \cup {Request("delete", id, urlSessionId, <<>>)}
    /\ UNCHANGED <<urlSessionId, sessions, messages, documents, isLoading, eps, srvVars,
                   deletedActive>>

\* handleDeleteSession(sessionId), the user declining the confirmation.
DeleteSessionDeclined(id) ==
    /\ userActs < MaxUser /\ userActs' = userActs + 1
    /\ id \in ListedIds
    /\ id # Undefined
    /\ declined' = Append(declined, "session")
    /\ UNCHANGED <<urlSessionId, sessions, messages, documents, isLoading, eps, reqs, srvVars,
                   upVars, deletedActive, faults>>

\* DELETE /chats/:id at the server.
ServeDelete(r) ==
    /\ NoUserAct
    /\ r \in reqs /\ r.kind = "delete" /\ r.phase = "sent"
    /\ \/ /\ r.sid \in SrvIds
          /\ reqs' = Respond(r, "ok", NoData)
          /\ srvSessions' = SelectSeq(srvSessions, LAMBDA s : s.id # r.sid)
          /\ NoFault
       \/ /\ r.sid \notin SrvIds
          /\ reqs' = Respond(r, "bad", NoData)
          /\ UNCHANGED srvSessions
          /\ NoFault
       \/ /\ reqs' = Respond(r, "throw", NoData)
          /\ UNCHANGED srvSessions
          /\ Fault
    /\ UNCHANGED <<urlSessionId, sessions, messages, documents, isLoading, eps,
                   srvMsgs, srvDocs, srvNextId, deletedActive>>

\* The filter of setSessions in handleDeleteSession.
DeleteKeeps(s, sessionId) == Prop(s, "_id") # sessionId

\* handleDeleteSession from its await on.
DeleteSessionDone(r) ==
    /\ NoFault
    /\ NoUserAct
    /\ r \in reqs /\ r.kind = "delete" /\ r.phase # "sent"
    /\ reqs' = reqs \ {r}
    /\ IF r.phase = "ok"
       THEN /\ sessions' = SelectSeq(sessions, LAMBDA s : DeleteKeeps(s, r.sid))
            /\ IF r.url = r.sid
               THEN /\ urlSessionId' = None
                    /\ messages' = IF EffectClears(urlSessionId, None) THEN <<>> ELSE messages
                    /\ documents' = IF EffectClears(urlSessionId, None) THEN <<>> ELSE documents
               ELSE UNCHANGED <<urlSessionId, messages, documents>>
            /\ deletedActive' = (deletedActive \/ (r.url = r.sid /\ urlSessionId = r.sid))
       ELSE UNCHANGED <<sessions, urlSessionId, messages, documents, deletedActive>>
    /\ UNCHANGED <<isLoading, eps, srvVars>>

(***************************************************************************)
(* handleRenameSession.                                                    *)
(***************************************************************************)
\* handleRenameSession(sessionId, newTitle) up to its await.
RenameSession(id, newTitle) ==
    /\ UserAct
    /\ id \in ListedIds
    /\ id # Undefined
    /\ Trim(newTitle) # <<>>
    /\ CanIssue(reqs, Request("rename", id, None, newTitle))
    /\ reqs' = reqs \cup {Request("rename", id, None, newTitle)}
    /\ UNCHANGED <<urlSessionId, sessions, messages, documents, isLoading, eps, srvVars,
                   deletedActive>>

\* PATCH /chats/:id at the server.
ServeRename(r) ==
    /\ NoUserAct
    /\ r \in reqs /\ r.kind = "rename" /\ r.phase = "sent"
    /\ \/ /\ r.sid \in SrvIds
          /\ reqs' = Respond(r, "ok", NoData)
          /\ srvSessions' = [i \in 1..Len(srvSessions) |->
                               IF srvSessions[i].id = r.sid
                               THEN [srvSessions[i] EXCEPT !.title = r.title]
                               ELSE srvSessions[i]]
          /\ NoFault
       \/ /\ r.sid \notin SrvIds
          /\ reqs' = Respond(r, "bad", NoData)
          /\ UNCHANGED srvSessions
          /\ NoFault
       \/ /\ reqs' = Respond(r, "throw", NoData)
          /\ UNCHANGED srvSessions
          /\ Fault
    /\ UNCHANGED <<urlSessionId, sessions, messages, documents, isLoading, eps,
                   srvMsgs, srvDocs, srvNextId, deletedActive>>

\* The map of setSessions in handleRenameSession, for one entry.
RenameEntry(s, sessionId, newTitle) ==
    IF Prop(s, "_id") = sessionId THEN [s EXCEPT !.title = newTitle] ELSE s

\* handleRenameSession from its await on.
RenameSessionDone(r) ==
    /\ NoFault
    /\ NoUserAct
    /\ r \in reqs /\ r.kind = "rename" /\ r.phase # "sent"
    /\ reqs' = reqs \ {r}
    /\ sessions' = IF r.phase = "ok"
                   THEN [i \in 1..Len(sessions) |-> RenameEntry(sessions[i], r.sid, r.title)]
                   ELSE sessions
    /\ UNCHANGED <<urlSessionId, messages, documents, isLoading, eps, srvVars, deletedActive>>

(***************************************************************************)
(* handleDeleteDocument.                                                   *)
(***************************************************************************)
ListedFiles == {documents[i].filename : i \in 1..Len(documents)}

\* The message the server appends to a session whose context changed.
SystemNotice(sid) == ServerMessage("system", <<"n">>, sid)

\* handleDeleteDocument(filename) up to its await, the user confirming.  The
\* handler keeps the urlSessionId of the render it was created in.
DeleteDocument(filename) ==
    /\ UserAct
    /\ filename \in ListedFiles
    /\ urlSessionId # None
    /\ CanIssue(reqs, Request("deldoc", urlSessionId, urlSessionId, filename))
    /\ reqs' = reqs \cup {Request("deldoc", urlSessionId, urlSessionId, filename)}
    /\ UNCHANGED <<urlSessionId, sessions, messages, documents, isLoading, eps, srvVars,
                   deletedActive>>

\* handleDeleteDocument(filename) with no active session: the first return.
DeleteDocumentNoSession(filename) ==
    /\ userActs < MaxUser /\ userActs' = userActs + 1
    /\ filename \in ListedFiles
    /\ urlSessionId = None
    /\ declined' = Append(declined, "no_session")
    /\ UNCHANGED <<urlSessionId, sessions, messages, documents, isLoading, eps, reqs, srvVars,
                   upVars, deletedActive, faults>>

\* DeleteDocumentDeclined sending the request whatever the user answers.
DeleteDocumentUnconfirmed(filename) ==
    /\ userActs < MaxUser /\ userActs' = userActs + 1
    /\ filename \in ListedFiles
    /\ urlSessionId # None
    /\ declined' = Append(declined, "document")
    /\ CanIssue(reqs, Request("deldoc", urlSessionId, urlSessionId, filename))
    /\ reqs' = reqs \cup {Request("deldoc", urlSessionId, urlSessionId, filename)}
    /\ UNCHANGED <<urlSessionId, sessions, messages, documents, isLoading, eps, srvVars,
                   upVars, deletedActive, faults>>

\* handleDeleteDocument(filename), the user declining the confirmation.
DeleteDocumentDeclined(filename) ==
    /\ userActs < MaxUser /\ userActs' = userActs + 1
    /\ filename \in ListedFiles
    /\ urlSessionId # None
    /\ declined' = Append(declined, "document")
    /\ UNCHANGED <<urlSessionId, sessions, messages, documents, isLoading, eps, reqs, srvVars,
                   upVars, deletedActive, faults>>

\* DELETE /chats/:id/documents/:filename at the server.
ServeDeleteDocument(r) ==
    /\ NoUserAct
    /\ r \in reqs /\ r.kind = "deldoc" /\ r.phase = "sent"
    /\ \/ /\ r.sid \in SrvIds
          /\ \E i \in 1..Len(srvDocs[r.sid]) : srvDocs[r.sid][i].filename = r.title
          /\ reqs' = Respond(r, "ok", NoData)
          /\ srvDocs' = [srvDocs EXCEPT ![r.sid] =
                            SelectSeq(@, LAMBDA d : d.filename # r.title)]
          /\ srvMsgs' = [srvMsgs EXCEPT ![r.sid] = Append(@, SystemNotice(r.sid))]
          /\ NoFault
       \/ /\ ~(/\ r.sid \in SrvIds
                /\ \E i \in 1..Len(srvDocs[r.sid]) : srvDocs[r.sid][i].filename = r.title)
          /\ reqs' = Respond(r, "bad", NoData)
          /\ UNCHANGED <<srvDocs, srvMsgs>>
          /\ NoFault
       \/ /\ reqs' = Respond(r, "throw", NoData)
          /\ UNCHANGED <<srvDocs, srvMsgs>>
          /\ Fault
    /\ UNCHANGED <<urlSessionId, sessions, messages, documents, isLoading, eps,
                   srvSessions, srvNextId, deletedActive>>

\* The filter of setDocuments in handleDeleteDocument.
DocumentKept(d, filename) == d.filename # filename

\* handleDeleteDocument from its await on.
DeleteDocumentDone(r) ==
    /\ NoFault
    /\ NoUserAct
    /\ r \in reqs /\ r.kind = "deldoc" /\ r.phase # "sent"
    /\ IF r.phase = "ok"
       THEN /\ CanIssue(reqs \ {r}, FetchSessionDataCall(r.url))
            /\ documents' = SelectSeq(documents, LAMBDA d : DocumentKept(d, r.title))
            /\ reqs' = (reqs \ {r}) \cup {FetchSessionDataCall(r.url)}
       ELSE /\ reqs' = reqs \ {r}
            /\ UNCHANGED documents
    /\ UNCHANGED <<urlSessionId, sessions, messages, isLoading, eps, srvVars, deletedActive>>

(***************************************************************************)
(* handleFileUpload, the batched strategy: one request carries all files.  *)
(* The pc of an invocation is the await it is suspended at: uploading /    *)
(* uploaded (POST upload, before and after the server handled it),         *)
(* fetching / fetched (GET of the new session), sleep (the 100 ms timer),  *)
(* refetch (await fetchSessionData), relist (await fetchSessions).         *)
(***************************************************************************)
NewSentinel == "new"
UploadTitle == <<"F">>

\* An alert() call: its kind and, for the summary, what it names.
Alert(kind, uploaded, skipped, failed) ==
    [kind |-> kind, uploaded |-> uploaded, skipped |-> skipped, failed |-> failed]

\* SummaryAlert shown for failed files only.
SummaryAlertFailedOnly(result) ==
    IF result.failed_count > 0
    THEN <<Alert("summary", result.uploaded_count, <<>>, result.failed_files)>>
    ELSE <<>>

\* The summary of lines 278-296, empty when nothing was skipped and nothing failed.
SummaryAlert(result) ==
    IF result.skipped_count > 0 \/ result.failed_count > 0
    THEN <<Alert("summary", result.uploaded_count,
                 IF result.skipped_count > 0 THEN result.skipped_files ELSE <<>>,
                 IF result.failed_count > 0 THEN result.failed_files ELSE <<>>)>>
    ELSE <<>>

NumText(n) == <<"0", "1", "2", "3", "4">>[n + 1]

\* The text of setUploadProgress for a batch of n files.
ProgressText(n) == <<"Uploading ", NumText(n), " file(s)...">>

\* The upload button of MessageInput: shown while not uploading, disabled while loading.
UploadAllowed == ~isUploading /\ ~isLoading

FreeUploadSlot(u) == ups[u].pc = "idle" /\ \A v \in 1..(u - 1) : ups[v].pc # "idle"

UploadInFlight(u) == ups[u].pc \notin {"idle", "done"}

\* FileUpload with setIsUploading(true) left to a later step of the handler.
FileUploadLateFlag(u, files) ==
    /\ userActs < MaxUser /\ userActs' = userActs + 1
    /\ NoFault
    /\ UploadAllowed
    /\ FreeUploadSlot(u)
    /\ Len(files) > 0
    /\ ups' = [ups EXCEPT ![u] = [IdleUpload EXCEPT
                  !.pc = "uploading",
                  !.target = IF urlSessionId = None THEN NewSentinel ELSE urlSessionId,
                  !.isNew = (urlSessionId = None),
                  !.files = files]]
    /\ uploadProgress' = ProgressText(Len(files))
    /\ deletedActive' = FALSE
    /\ UNCHANGED <<urlSessionId, sessions, messages, documents, isLoading, eps, reqs,
                   srvVars, alerts, isUploading>>

\* handleFileChange and handleFileUpload(files) up to its first await.
FileUpload(u, files) ==
    /\ userActs < MaxUser /\ userActs' = userActs + 1
    /\ NoFault
    /\ UploadAllowed
    /\ FreeUploadSlot(u)
    /\ Len(files) > 0
    /\ ups' = [ups EXCEPT ![u] = [IdleUpload EXCEPT
                  !.pc = "uploading",
                  !.target = IF urlSessionId = None THEN NewSentinel ELSE urlSessionId,
                  !.isNew = (urlSessionId = None),
                  !.files = files]]
    /\ isUploading' = TRUE
    /\ uploadProgress' = ProgressText(Len(files))
    /\ deletedActive' = FALSE
    /\ UNCHANGED <<urlSessionId, sessions, messages, documents, isLoading, eps, reqs,
                   srvVars, alerts>>

FileNames(docs) == {docs[i].filename : i \in 1..Len(docs)}

\* The server's classification of the files of a batch, in order: a filename
\* the session holds is skipped, a file that cannot be stored has failed, the
\* others are uploaded.
RECURSIVE Classify(_, _, _, _)
Classify(files, have, failing, acc) ==
    IF files = <<>> THEN acc
    ELSE LET f == Head(files)
         IN IF f \in have
            THEN Classify(Tail(files), have, failing,
                          [acc EXCEPT !.skipped = Append(@, f)])
            ELSE IF f \in failing
            THEN Classify(Tail(files), have, failing,
                          [acc EXCEPT !.failed = Append(@, f)])
            ELSE Classify(Tail(files), have \cup {f}, failing,
                          [acc EXCEPT !.uploaded = Append(@, f)])

NoneClassified == [uploaded |-> <<>>, skipped |-> <<>>, failed |-> <<>>]

\* POST /chats/:id/upload at the server, for the session sid.
StoreFiles(u, sid, failing) ==
    LET c == Classify(ups[u].files, FileNames(srvDocs[sid]), failing, NoneClassified)
    IN /\ srvDocs' = [srvDocs EXCEPT ![sid] =
                         @ \o [i \in 1..Len(c.uploaded) |->
                                  DocumentMetadata(c.uploaded[i], sid)]]
       /\ ups' = [ups EXCEPT ![u].pc = "uploaded", ![u].resp = "ok",
                             ![u].result = UploadResult(sid, Len(c.uploaded),
                                                        c.skipped, c.failed)]

\* POST /chats/:id/upload at the server, or its failure: with the sentinel
\* "new" the server creates the session.
ServeUpload(u) ==
    /\ UNCHANGED userActs
    /\ ups[u].pc = "uploading"
    /\ \/ /\ ups[u].target = NewSentinel
          /\ srvNextId < MaxCreate
          /\ srvNextId < Len(NewIds)
          /\ srvNextId' = srvNextId + 1
          /\ srvSessions' = <<ChatSession(NewIds[srvNextId + 1], UploadTitle)>> \o srvSessions
          /\ \E failing \in SUBSET {ups[u].files[i] : i \in 1..Len(ups[u].files)} :
                StoreFiles(u, NewIds[srvNextId + 1], failing)
          /\ NoFault
       \/ /\ ups[u].target \in SrvIds
          /\ \E failing \in SUBSET {ups[u].files[i] : i \in 1..Len(ups[u].files)} :
                StoreFiles(u, ups[u].target, failing)
          /\ UNCHANGED <<srvSessions, srvNextId>>
          /\ NoFault
       \/ /\ ups[u].target \notin SrvIds \cup {NewSentinel}
          /\ ups' = [ups EXCEPT ![u].pc = "uploaded", ![u].resp = "bad"]
          /\ UNCHANGED <<srvSessions, srvDocs, srvNextId>>
          /\ NoFault
       \/ /\ \E out \in {"bad", "throw"} :
                ups' = [ups EXCEPT ![u].pc = "uploaded", ![u].resp = out]
          /\ UNCHANGED <<srvSessions, srvDocs, srvNextId>>
          /\ Fault
    /\ UNCHANGED <<urlSessionId, sessions, messages, documents, isLoading, eps, reqs,
                   srvMsgs, isUploading, uploadProgress, alerts, deletedActive>>

\* UploadFinally without the reset of the progress text.
UploadFinallyKeepsProgress(u, upl) ==
    /\ isUploading' = FALSE
    /\ UNCHANGED uploadProgress
    /\ ups' = [upl EXCEPT ![u].pc = "done"]

\* finally of handleFileUpload.
UploadFinally(u, upl) ==
    /\ isUploading' = FALSE
    /\ uploadProgress' = <<>>
    /\ ups' = [upl EXCEPT ![u].pc = "done"]

\* The requests of the awaits `fetchSessionData(actualSessionId)` and `fetchSessions()`.
UploadRefetchCall(sessionId) == Request("fetch", sessionId, "upload", <<>>)
UploadRelistCall == Request("list", None, "upload", <<>>)

\* UploadDone without the test of totalProcessed: every outcome of a
\* response that is ok goes on to the fetch of the session.
UploadDoneNoCountTest(u) ==
    /\ UNCHANGED userActs
    /\ NoFault
    /\ ups[u].pc = "uploaded"
    /\ LET result == ups[u].result
       IN \/ /\ ups[u].resp = "throw"
             /\ alerts' = Append(alerts, Alert("error", 0, <<>>, <<>>))
             /\ UploadFinally(u, ups)
             /\ UNCHANGED reqs
          \/ /\ ups[u].resp = "bad"
             /\ alerts' = Append(alerts, Alert("failed", 0, <<>>, <<>>))
             /\ UploadFinally(u, ups)
             /\ UNCHANGED reqs
          \/ /\ ups[u].resp = "ok" /\ ups[u].isNew
             /\ alerts' = alerts \o SummaryAlert(result)
             /\ ups' = [ups EXCEPT ![u].pc = "fetching"]
             /\ UNCHANGED <<reqs, isUploading, uploadProgress>>
          \/ /\ ups[u].resp = "ok" /\ ~ups[u].isNew
             /\ alerts' = alerts \o SummaryAlert(result)
             /\ CanIssue(reqs, UploadRefetchCall(result.session_id))
             /\ reqs' = reqs \cup {UploadRefetchCall(result.session_id)}
             /\ ups' = [ups EXCEPT ![u].pc = "refetch"]
             /\ UNCHANGED <<isUploading, uploadProgress>>
    /\ UNCHANGED <<urlSessionId, sessions, messages, documents, isLoading, eps, srvVars,
                   deletedActive>>

\* handleFileUpload from the await of POST upload to its next await, or its end.
UploadDone(u) ==
    /\ UNCHANGED userActs
    /\ NoFault
    /\ ups[u].pc = "uploaded"
    /\ LET result == ups[u].result
           totalProcessed == result.uploaded_count + result.skipped_count
       IN \/ /\ ups[u].resp = "throw"
             /\ alerts' = Append(alerts, Alert("error", 0, <<>>, <<>>))
             /\ UploadFinally(u, ups)
             /\ UNCHANGED reqs
          \/ /\ ups[u].resp = "bad"
             /\ alerts' = Append(alerts, Alert("failed", 0, <<>>, <<>>))
             /\ UploadFinally(u, ups)
             /\ UNCHANGED reqs
          \/ /\ ups[u].resp = "ok" /\ totalProcessed = 0
             /\ alerts' = alerts \o SummaryAlert(result)
                                 \o <<Alert("none_uploaded", 0, <<>>, <<>>)>>
             /\ UploadFinally(u, ups)
             /\ UNCHANGED reqs
          \/ /\ ups[u].resp = "ok" /\ totalProcessed > 0 /\ ups[u].isNew
             /\ alerts' = alerts \o SummaryAlert(result)
             /\ ups' = [ups EXCEPT ![u].pc = "fetching"]
             /\ UNCHANGED <<reqs, isUploading, uploadProgress>>
          \/ /\ ups[u].resp = "ok" /\ totalProcessed > 0 /\ ~ups[u].isNew
             /\ alerts' = alerts \o SummaryAlert(result)
             /\ CanIssue(reqs, UploadRefetchCall(result.session_id))
             /\ reqs' = reqs \cup {UploadRefetchCall(result.session_id)}
             /\ ups' = [ups EXCEPT ![u].pc = "refetch"]
             /\ UNCHANGED <<isUploading, uploadProgress>>
    /\ UNCHANGED <<urlSessionId, sessions, messages, documents, isLoading, eps, srvVars,
                   deletedActive>>

\* The session document GET /chats/:id answers with: the lists of the
\* session, with or without the session's id and title.
SessionDocument(sid, full, omitted) ==
    IF full
    THEN [id |-> sid, title |-> UploadTitle, messages |-> srvMsgs[sid],
          documents |-> srvDocs[sid], omitted |-> omitted]
    ELSE [messages |-> srvMsgs[sid], documents |-> srvDocs[sid], omitted |-> omitted]

\* GET /chats/:id for the session the upload created, at the server.
ServeUploadFetch(u) ==
    /\ UNCHANGED userActs
    /\ ups[u].pc = "fetching"
    /\ LET sid == ups[u].result.session_id
       IN \/ /\ sid \in SrvIds
             /\ \E full \in BOOLEAN : \E omitted \in {{}, EmptyLists(sid)} :
                   ups' = [ups EXCEPT ![u].pc = "fetched", ![u].resp = "ok",
                                      ![u].data = SessionDocument(sid, full, omitted)]
             /\ NoFault
          \/ /\ sid \notin SrvIds
             /\ ups' = [ups EXCEPT ![u].pc = "fetched", ![u].resp = "bad"]
             /\ NoFault
          \/ /\ ups' = [ups EXCEPT ![u].pc = "fetched", ![u].resp = "throw"]
             /\ Fault
    /\ UNCHANGED <<urlSessionId, sessions, messages, documents, isLoading, eps, reqs,
                   srvVars, isUploading, uploadProgress, alerts, deletedActive>>

\* UploadFetchDone with the new entry put at the end of the session list.
UploadFetchDoneAppends(u) ==
    /\ UNCHANGED userActs
    /\ NoFault
    /\ ups[u].pc = "fetched"
    /\ LET actualSessionId == ups[u].result.session_id
       IN \/ /\ ups[u].resp = "ok"
             /\ EffectAllowed(urlSessionId, actualSessionId, reqs)
             /\ sessions' = Append(sessions, ups[u].data)
             /\ urlSessionId' = actualSessionId
             /\ reqs' = EffectReqs(urlSessionId, actualSessionId, reqs)
             /\ ups' = [ups EXCEPT ![u].pc = "sleep"]
             /\ UNCHANGED <<isUploading, uploadProgress, alerts>>
          \/ /\ ups[u].resp = "bad"
             /\ UploadFinally(u, ups)
             /\ UNCHANGED <<sessions, urlSessionId, reqs, alerts>>
          \/ /\ ups[u].resp = "throw"
             /\ alerts' = Append(alerts, Alert("error", 0, <<>>, <<>>))
             /\ UploadFinally(u, ups)
             /\ UNCHANGED <<sessions, urlSessionId, reqs>>
    /\ UNCHANGED <<messages, documents, isLoading, eps, srvVars, deletedActive>>

\* UploadFetchDone navigating with the id the upload was posted to.
UploadFetchDoneRequestedId(u) ==
    /\ UNCHANGED userActs
    /\ NoFault
    /\ ups[u].pc = "fetched"
    /\ LET actualSessionId == ups[u].target
       IN \/ /\ ups[u].resp = "ok"
             /\ EffectAllowed(urlSessionId, actualSessionId, reqs)
             /\ sessions' = <<ups[u].data>> \o sessions
             /\ urlSessionId' = actualSessionId
             /\ reqs' = EffectReqs(urlSessionId, actualSessionId, reqs)
             /\ ups' = [ups EXCEPT ![u].pc = "sleep"]
             /\ UNCHANGED <<isUploading, uploadProgress, alerts>>
          \/ /\ ups[u].resp = "bad"
             /\ UploadFinally(u, ups)
             /\ UNCHANGED <<sessions, urlSessionId, reqs, alerts>>
          \/ /\ ups[u].resp = "throw"
             /\ alerts' = Append(alerts, Alert("error", 0, <<>>, <<>>))
             /\ UploadFinally(u, ups)
             /\ UNCHANGED <<sessions, urlSessionId, reqs>>
    /\ UNCHANGED <<messages, documents, isLoading, eps, srvVars, deletedActive>>

\* handleFileUpload from the await of GET /chats/:id to the 100 ms timer, or its end.
UploadFetchDone(u) ==
    /\ UNCHANGED userActs
    /\ NoFault
    /\ ups[u].pc = "fetched"
    /\ LET actualSessionId == ups[u].result.session_id
       IN \/ /\ ups[u].resp = "ok"
             /\ EffectAllowed(urlSessionId, actualSessionId, reqs)
             /\ sessions' = <<ups[u].data>> \o sessions
             /\ urlSessionId' = actualSessionId
             /\ reqs' = EffectReqs(urlSessionId, actualSessionId, reqs)
             /\ ups' = [ups EXCEPT ![u].pc = "sleep"]
             /\ UNCHANGED <<isUploading, uploadProgress, alerts>>
          \/ /\ ups[u].resp = "bad"
             /\ UploadFinally(u, ups)
             /\ UNCHANGED <<sessions, urlSessionId, reqs, alerts>>
          \/ /\ ups[u].resp = "throw"
             /\ alerts' = Append(alerts, Alert("error", 0, <<>>, <<>>))
             /\ UploadFinally(u, ups)
             /\ UNCHANGED <<sessions, urlSessionId, reqs>>
    /\ UNCHANGED <<messages, documents, isLoading, eps, srvVars, deletedActive>>

\* UploadSleepDone with the document list predicted from the submitted files.
UploadSleepDonePredicts(u) ==
    /\ UNCHANGED userActs
    /\ NoFault
    /\ ups[u].pc = "sleep"
    /\ messages' = OrEmpty(ups[u].data, "messages")
    /\ documents' = documents \o [i \in 1..Len(ups[u].files) |->
                                     DocumentMetadata(ups[u].files[i], urlSessionId)]
    /\ UploadFinally(u, ups)
    /\ UNCHANGED <<urlSessionId, sessions, isLoading, eps, reqs, srvVars, alerts,
                   deletedActive>>

\* After the timer: the lists are set from the session document, then finally.
UploadSleepDone(u) ==
    /\ UNCHANGED userActs
    /\ NoFault
    /\ ups[u].pc = "sleep"
    /\ messages' = OrEmpty(ups[u].data, "messages")
    /\ documents' = OrEmpty(ups[u].data, "documents")
    /\ UploadFinally(u, ups)
    /\ UNCHANGED <<urlSessionId, sessions, isLoading, eps, reqs, srvVars, alerts,
                   deletedActive>>

\* `await fetchSessionData(actualSessionId)` has resolved: fetchSessions() is called.
UploadRefetched(u) ==
    /\ UNCHANGED userActs
    /\ NoFault
    /\ ups[u].pc = "refetch"
    /\ \A r \in reqs : ~(r.kind = "fetch" /\ r.url = "upload")
    /\ CanIssue(reqs, UploadRelistCall)
    /\ reqs' = reqs \cup {UploadRelistCall}
    /\ ups' = [ups EXCEPT ![u].pc = "relist"]
    /\ UNCHANGED <<urlSessionId, sessions, messages, documents, isLoading, eps, srvVars,
                   isUploading, uploadProgress, alerts, deletedActive>>

\* `await fetchSessions()` has resolved: finally.
UploadRelisted(u) ==
    /\ UNCHANGED userActs
    /\ NoFault
    /\ ups[u].pc = "relist"
    /\ \A r \in reqs : ~(r.kind = "list" /\ r.url = "upload")
    /\ UploadFinally(u, ups)
    /\ UNCHANGED <<urlSessionId, sessions, messages, documents, isLoading, eps, reqs,
                   srvVars, alerts, deletedActive>>

(***************************************************************************)
(* handleFileUpload, the per-file strategy: the session is created first   *)
(* when none is active, then each file goes in a request of its own.  The  *)
(* pc of an invocation: pf_creating / pf_created (POST /chats, before and  *)
(* after the server handled it), pf_posting / pf_posted (POST upload of    *)
(* file i).  sent is the history of the files posted so far; quiet tells   *)
(* that no request was in flight when the invocation began.                *)
(***************************************************************************)
\* The title of the session the per-file strategy creates.
FilesTitle ==
    <<"N", "e", "w", " ", "C", "h", "a", "t", " ", "(", "F", "i", "l", "e", "s", ")">>

\* `Uploading ${file.name} (${i + 1}/${total})...`, i counted from 1 here.
FileProgressText(file, i, total) ==
    <<"Uploading ">> \o file \o <<" (", NumText(i), "/", NumText(total), ")...">>

\* The tag of the fetch started after file i, which tells the fetches of
\* one session apart.
FileTags == <<"file1", "file2", "file3">>

\* fetchSessionData(targetSessionId), not awaited, after file i.
FileRefetchCall(sessionId, i) == Request("fetch", sessionId, FileTags[i], <<>>)

\* One iteration of the for-loop up to its await: the progress text and the
\* POST of file i to the session sid.
PostFile(u, upl, sid, i) ==
    /\ uploadProgress' = FileProgressText(upl[u].files[i], i, Len(upl[u].files))
    /\ ups' = [upl EXCEPT ![u].pc = "pf_posting", ![u].i = i, ![u].target = sid,
                          ![u].sent = Append(@, upl[u].files[i])]

\* handleFileChange and handleFileUpload(files) up to its first await.
PerFileUpload(u, files) ==
    /\ userActs < MaxUser /\ userActs' = userActs + 1
    /\ NoFault
    /\ UploadAllowed
    /\ FreeUploadSlot(u)
    /\ Len(files) > 0
    /\ LET started == [ups EXCEPT ![u] = [IdleUpload EXCEPT !.files = files,
                                                           !.isNew = (urlSessionId = None),
                                                           !.quiet = (reqs = {})]]
       IN IF urlSessionId = None
          THEN /\ ups' = [started EXCEPT ![u].pc = "pf_creating"]
               /\ UNCHANGED <<isUploading, uploadProgress>>
          ELSE /\ isUploading' = TRUE
               /\ PostFile(u, started, urlSessionId, 1)
    /\ deletedActive' = FALSE
    /\ UNCHANGED <<urlSessionId, sessions, messages, documents, isLoading, eps, reqs,
                   srvVars, alerts>>

\* POST /chats at the server, or its failure.
ServeFilesCreate(u) ==
    /\ UNCHANGED userActs
    /\ ups[u].pc = "pf_creating"
    /\ \/ /\ srvNextId < MaxCreate
          /\ srvNextId < Len(NewIds)
          /\ srvNextId' = srvNextId + 1
          /\ srvSessions' = <<ChatSession(NewIds[srvNextId + 1], FilesTitle)>> \o srvSessions
          /\ ups' = [ups EXCEPT ![u].pc = "pf_created", ![u].resp = "ok",
                                ![u].newId = NewIds[srvNextId + 1]]
          /\ NoFault
       \/ /\ \E out \in {"bad", "throw"} :
                ups' = [ups EXCEPT ![u].pc = "pf_created", ![u].resp = out]
          /\ UNCHANGED <<srvSessions, srvNextId>>
          /\ Fault
    /\ UNCHANGED <<urlSessionId, sessions, messages, documents, isLoading, eps, reqs,
                   srvMsgs, srvDocs, isUploading, uploadProgress, alerts, deletedActive>>

\* handleFileUpload from the await of POST /chats to the await of the first
\* POST upload, or its return.
FilesCreateDone(u) ==
    /\ UNCHANGED userActs
    /\ NoFault
    /\ ups[u].pc = "pf_created"
    /\ IF ups[u].resp = "ok"
       THEN /\ EffectAllowed(urlSessionId, ups[u].newId, reqs)
            /\ sessions' = <<ChatSession(ups[u].newId, FilesTitle)>> \o sessions
            /\ urlSessionId' = ups[u].newId
            /\ reqs' = EffectReqs(urlSessionId, ups[u].newId, reqs)
            /\ isUploading' = TRUE
            /\ PostFile(u, ups, ups[u].newId, 1)
       ELSE /\ ups' = [ups EXCEPT ![u].pc = "done"]
            /\ UNCHANGED <<sessions, urlSessionId, reqs, isUploading, uploadProgress>>
    /\ UNCHANGED <<messages, documents, isLoading, eps, srvVars, alerts, deletedActive>>

\* POST /chats/:id/upload with the one file i at the server, or its failure.
ServeFileUpload(u) ==
    /\ UNCHANGED userActs
    /\ ups[u].pc = "pf_posting"
    /\ LET file == ups[u].files[ups[u].i]
           sid == ups[u].target
       IN \/ /\ sid \in SrvIds
             /\ \E failing \in SUBSET {file} :
                   LET c == Classify(<<file>>, FileNames(srvDocs[sid]), failing,
                                     NoneClassified)
                   IN /\ srvDocs' = [srvDocs EXCEPT ![sid] =
                                        @ \o [k \in 1..Len(c.uploaded) |->
                                                 DocumentMetadata(c.uploaded[k], sid)]]
                      /\ ups' = [ups EXCEPT ![u].pc = "pf_posted", ![u].resp = "ok",
                                            ![u].result = UploadResult(sid, Len(c.uploaded),
                                                                       c.skipped, c.failed)]
             /\ NoFault
          \/ /\ sid \notin SrvIds
             /\ ups' = [ups EXCEPT ![u].pc = "pf_posted", ![u].resp = "bad"]
             /\ UNCHANGED srvDocs
             /\ NoFault
          \/ /\ \E out \in {"bad", "throw"} :
                   ups' = [ups EXCEPT ![u].pc = "pf_posted", ![u].resp = out]
             /\ UNCHANGED srvDocs
             /\ Fault
    /\ UNCHANGED <<urlSessionId, sessions, messages, documents, isLoading, eps, reqs,
                   srvSessions, srvMsgs, srvNextId, isUploading, uploadProgress, alerts,
                   deletedActive>>

\* FileUploadDone with the for-loop left on the first file that fails.
FileUploadDoneAborts(u) ==
    /\ UNCHANGED userActs
    /\ NoFault
    /\ ups[u].pc = "pf_posted"
    /\ LET i == ups[u].i
           ok == ups[u].resp = "ok"
           counted == [ups EXCEPT ![u].uploadedCount = IF ok THEN @ + 1 ELSE @]
       IN /\ ok => CanIssue(reqs, FileRefetchCall(ups[u].target, i))
          /\ reqs' = IF ok THEN reqs \cup {FileRefetchCall(ups[u].target, i)} ELSE reqs
          /\ IF ok /\ i < Len(ups[u].files)
             THEN /\ PostFile(u, counted, ups[u].target, i + 1)
                  /\ UNCHANGED isUploading
             ELSE UploadFinally(u, counted)
    /\ UNCHANGED <<urlSessionId, sessions, messages, documents, isLoading, eps, srvVars,
                   alerts, deletedActive>>

\* handleFileUpload from the await of the POST of file i to the await of the
\* next POST, or through finally after the last file.
FileUploadDone(u) ==
    /\ UNCHANGED userActs
    /\ NoFault
    /\ ups[u].pc = "pf_posted"
    /\ LET i == ups[u].i
           ok == ups[u].resp = "ok"
           counted == [ups EXCEPT ![u].uploadedCount = IF ok THEN @ + 1 ELSE @]
       IN /\ ok => CanIssue(reqs, FileRefetchCall(ups[u].target, i))
          /\ reqs' = IF ok THEN reqs \cup {FileRefetchCall(ups[u].target, i)} ELSE reqs
          /\ IF i < Len(ups[u].files)
             THEN /\ PostFile(u, counted, ups[u].target, i + 1)
                  /\ UNCHANGED isUploading
             ELSE UploadFinally(u, counted)
    /\ UNCHANGED <<urlSessionId, sessions, messages, documents, isLoading, eps, srvVars,
                   alerts, deletedActive>>

(***************************************************************************)
(* handleSendMessage.  An episode is one invocation; its pc is the await   *)
(* it is suspended at: creating/created (POST /chats, before and after the *)
(* server handled it), sleep (the 100 ms timer), posting (POST message),   *)
(* streaming (reader.read()).                                              *)
(***************************************************************************)
\* MessageInput.handleSubmit: the guard of the input box.
SubmitAllowed(text) == Trim(text) # <<>> /\ ~isLoading

FreeSlot(e) == eps[e].pc = "idle" /\ \A f \in 1..(e - 1) : eps[f].pc # "idle"

ErrorMessage(e) == Message("assistant", ErrorContent, eps[e].target, e)

\* handleSubmit and handleSendMessage(text) up to its first await.
Submit(e, text) ==
    /\ UserAct
    /\ SubmitAllowed(text)
    /\ FreeSlot(e)
    /\ IF urlSessionId = None
       THEN /\ eps' = [eps EXCEPT ![e] = [IdleEpisode EXCEPT !.pc = "creating",
                                                             !.text = text,
                                                             !.lazy = TRUE]]
            /\ UNCHANGED <<messages, isLoading>>
       ELSE /\ eps' = [eps EXCEPT ![e] = [IdleEpisode EXCEPT !.pc = "posting",
                                                             !.text = text,
                                                             !.target = urlSessionId]]
            /\ messages' = Append(messages, Message("user", text, urlSessionId, e))
            /\ isLoading' = TRUE
    /\ deletedActive' = FALSE
    /\ UNCHANGED <<urlSessionId, sessions, documents, reqs, srvVars>>

\* The title handleSendMessage gives the session it creates.
NewSessionTitle(text) == SliceTo(text, TitleLen) \o TitleSuffix

\* POST /chats at the server, or its failure.  A server that has created
\* MaxCreate sessions answers with an error status, so that the request
\* resolves within the bounds of the model.
ServeCreate(e) ==
    /\ NoUserAct
    /\ eps[e].pc = "creating"
    /\ \/ /\ srvNextId < MaxCreate
          /\ srvNextId < Len(NewIds)
          /\ srvNextId' = srvNextId + 1
          /\ srvSessions' = <<ChatSession(NewIds[srvNextId + 1],
                                          NewSessionTitle(eps[e].text))>> \o srvSessions
          /\ eps' = [eps EXCEPT ![e].pc = "created", ![e].resp = "ok",
                                ![e].newId = NewIds[srvNextId + 1],
                                ![e].created = @ + 1]
          /\ NoFault
       \/ /\ \E out \in {"bad", "throw"} :
                eps' = [eps EXCEPT ![e].pc = "created", ![e].resp = out]
          /\ UNCHANGED <<srvSessions, srvNextId>>
          /\ Fault
       \/ /\ srvNextId >= MaxCreate \/ srvNextId >= Len(NewIds)
          /\ eps' = [eps EXCEPT ![e].pc = "created", ![e].resp = "bad"]
          /\ UNCHANGED <<srvSessions, srvNextId>>
          /\ NoFault
    /\ UNCHANGED <<urlSessionId, sessions, messages, documents, isLoading, reqs,
                   srvMsgs, srvDocs, deletedActive>>

\* CreateDone without the `return` of the failure branches: the episode goes
\* on to the optimistic update.
CreateDoneNoReturn(e) ==
    /\ NoFault
    /\ NoUserAct
    /\ eps[e].pc = "created"
    /\ IF eps[e].resp = "ok"
       THEN /\ EffectAllowed(urlSessionId, eps[e].newId, reqs)
            /\ sessions' = <<ChatSession(eps[e].newId, NewSessionTitle(eps[e].text))>>
                              \o sessions
            /\ urlSessionId' = eps[e].newId
            /\ reqs' = EffectReqs(urlSessionId, eps[e].newId, reqs)
            /\ eps' = [eps EXCEPT ![e].pc = "sleep", ![e].target = eps[e].newId]
            /\ UNCHANGED <<messages, isLoading>>
       ELSE /\ eps' = [eps EXCEPT ![e].pc = "posting"]
            /\ messages' = Append(messages, Message("user", eps[e].text, eps[e].target, e))
            /\ isLoading' = TRUE
            /\ UNCHANGED <<sessions, urlSessionId, reqs>>
    /\ UNCHANGED <<documents, srvVars, deletedActive>>

\* handleSendMessage from the await of POST /chats to the 100 ms timer, or its return.
CreateDone(e) ==
    /\ NoFault
    /\ NoUserAct
    /\ eps[e].pc = "created"
    /\ IF eps[e].resp = "ok"
       THEN /\ EffectAllowed(urlSessionId, eps[e].newId, reqs)
            /\ sessions' = <<ChatSession(eps[e].newId, NewSessionTitle(eps[e].text))>>
                              \o sessions
            /\ urlSessionId' = eps[e].newId
            /\ reqs' = EffectReqs(urlSessionId, eps[e].newId, reqs)
            /\ eps' = [eps EXCEPT ![e].pc = "sleep", ![e].target = eps[e].newId]
       ELSE /\ eps' = [eps EXCEPT ![e].pc = "done"]
            /\ UNCHANGED <<sessions, urlSessionId, reqs>>
    /\ UNCHANGED <<messages, documents, isLoading, srvVars, deletedActive>>

\* The optimistic update, after the timer: the user message and isLoading.
SleepDone(e) ==
    /\ NoFault
    /\ NoUserAct
    /\ eps[e].pc = "sleep"
    /\ messages' = Append(messages, Message("user", eps[e].text, eps[e].target, e))
    /\ isLoading' = TRUE
    /\ eps' = [eps EXCEPT ![e].pc = "posting"]
    /\ UNCHANGED <<urlSessionId, sessions, documents, reqs, srvVars, deletedActive>>

\* catch and finally of handleSendMessage.
Fail(e) ==
    /\ messages' = Append(messages, ErrorMessage(e))
    /\ isLoading' = FALSE
    /\ eps' = [eps EXCEPT ![e].pc = "done", ![e].failed = TRUE, ![e].rest = <<>>]

\* The server stores the message it was sent, for a session it holds.
ServeMessage(e) ==
    srvMsgs' = IF eps[e].target \in SrvIds
               THEN [srvMsgs EXCEPT ![eps[e].target] =
                        Append(@, ServerMessage("user", eps[e].text, eps[e].target))]
               ELSE srvMsgs

\* POST /chats/:id/message rejects: the catch block.
PostThrows(e) ==
    /\ Fault
    /\ NoUserAct
    /\ eps[e].pc = "posting"
    /\ Fail(e)
    /\ UNCHANGED <<urlSessionId, sessions, documents, reqs, srvVars, deletedActive>>

\* The response has no body: `throw new Error("No response body")`.
PostNoBody(e) ==
    /\ Fault
    /\ NoUserAct
    /\ eps[e].pc = "posting"
    /\ Fail(e)
    /\ ServeMessage(e)
    /\ UNCHANGED <<urlSessionId, sessions, documents, reqs, srvSessions, srvDocs, srvNextId,
                   deletedActive>>

\* The response arrives with a body: the assistant placeholder is appended.
StartStream(e, chunks) ==
    /\ messages' = Append(messages, Message("assistant", <<>>, eps[e].target, e))
    /\ eps' = [eps EXCEPT ![e].pc = "streaming", ![e].rest = chunks, ![e].body = chunks]

PostDone(e) ==
    /\ NoFault
    /\ NoUserAct
    /\ eps[e].pc = "posting"
    /\ \E chunks \in StreamBodies : StartStream(e, chunks)
    /\ ServeMessage(e)
    /\ UNCHANGED <<urlSessionId, sessions, documents, isLoading, reqs, srvSessions, srvDocs,
                   srvNextId, deletedActive>>

\* setMessages of the token branch: the last element is replaced.
ReplaceLast(prev, msg) ==
    IF prev = <<>> THEN prev ELSE [prev EXCEPT ![Len(prev)] = msg]

\* One iteration of the while-loop: a chunk was read.
ReadChunk(e) ==
    /\ NoFault
    /\ NoUserAct
    /\ eps[e].pc = "streaming"
    /\ eps[e].rest # <<>>
    /\ LET r == ProcessChunk(eps[e].content, Head(eps[e].rest))
       IN /\ r.refresh > 0 => CanIssue(reqs, FetchSessionsCall)
          /\ reqs' = IF r.refresh > 0 THEN reqs \cup {FetchSessionsCall} ELSE reqs
          /\ messages' = IF r.updates > 0
                         THEN ReplaceLast(messages,
                                          Message("assistant", r.content, eps[e].target, e))
                         ELSE messages
          /\ eps' = [eps EXCEPT ![e].content = r.content,
                                ![e].rest = Tail(@),
                                ![e].doneSeen = @ \/ r.refresh > 0]
    /\ UNCHANGED <<urlSessionId, sessions, documents, isLoading, srvVars, deletedActive>>

\* ReadEnd with the end of the transport before [DONE] taken as a failure.
ReadEndStrict(e) ==
    /\ NoFault
    /\ NoUserAct
    /\ eps[e].pc = "streaming"
    /\ eps[e].rest = <<>>
    /\ IF eps[e].doneSeen
       THEN /\ isLoading' = FALSE
            /\ eps' = [eps EXCEPT ![e].pc = "done"]
            /\ UNCHANGED messages
       ELSE Fail(e)
    /\ UNCHANGED <<urlSessionId, sessions, documents, reqs, srvVars, deletedActive>>

\* ReadEnd without the finally block: isLoading keeps its value.
ReadEndKeepsLoading(e) ==
    /\ NoFault
    /\ NoUserAct
    /\ eps[e].pc = "streaming"
    /\ eps[e].rest = <<>>
    /\ eps' = [eps EXCEPT ![e].pc = "done"]
    /\ UNCHANGED <<urlSessionId, sessions, messages, documents, isLoading, reqs, srvVars,
                   deletedActive>>

\* reader.read() reports done: the loop ends, then finally.
ReadEnd(e) ==
    /\ NoFault
    /\ NoUserAct
    /\ eps[e].pc = "streaming"
    /\ eps[e].rest = <<>>
    /\ isLoading' = FALSE
    /\ eps' = [eps EXCEPT ![e].pc = "done"]
    /\ UNCHANGED <<urlSessionId, sessions, messages, documents, reqs, srvVars, deletedActive>>

\* reader.read() rejects: the catch block.
ReadThrows(e) ==
    /\ Fault
    /\ NoUserAct
    /\ eps[e].pc = "streaming"
    /\ Fail(e)
    /\ UNCHANGED <<urlSessionId, sessions, documents, reqs, srvVars, deletedActive>>

(***************************************************************************)
(* The controller's specification.                                         *)
(***************************************************************************)
\* Navigation and the two fetches, part of every specification of the controller.
Browse ==
    \/ \E id \in AllIds : SelectSession(id)
    \/ NewChat
    \/ \E r \in reqs : ServeList(r)
    \/ \E r \in reqs : FetchSessionsDone(r)
    \/ \E r \in reqs : ServeFetch(r)
    \/ \E r \in reqs : FetchSessionDataDone(r)

\* The send-message episodes.
Send ==
    \/ \E e \in 1..MaxSend, text \in Texts : Submit(e, text)
    \/ \E e \in 1..MaxSend : ServeCreate(e)
    \/ \E e \in 1..MaxSend : CreateDone(e)
    \/ \E e \in 1..MaxSend : SleepDone(e)
    \/ \E e \in 1..MaxSend : PostThrows(e)
    \/ \E e \in 1..MaxSend : PostNoBody(e)
    \/ \E e \in 1..MaxSend : PostDone(e)
    \/ \E e \in 1..MaxSend : ReadChunk(e)
    \/ \E e \in 1..MaxSend : ReadEnd(e)
    \/ \E e \in 1..MaxSend : ReadThrows(e)

\* The session-list operations of the sidebar.
ListOps ==
    \/ \E id \in AllIds : DeleteSession(id)
    \/ \E r \in reqs : ServeDelete(r)
    \/ \E r \in reqs : DeleteSessionDone(r)
    \/ \E id \in AllIds, t \in NewTitles : RenameSession(id, t)
    \/ \E r \in reqs : ServeRename(r)
    \/ \E r \in reqs : RenameSessionDone(r)

\* Browsing and sending.
Next == Browse \/ Send

Spec == Init /\ [][Next]_vars

\* A step of the server or of the program that is ready, other than the
\* read of a chunk: a request is answered, or a response, a timer or the end
\* of the stream is handled.
Resolves ==
    \/ \E r \in reqs : ServeList(r) \/ FetchSessionsDone(r)
    \/ \E r \in reqs : ServeFetch(r) \/ FetchSessionDataDone(r)
    \/ \E e \in 1..MaxSend : ServeCreate(e) \/ CreateDone(e) \/ SleepDone(e)
    \/ \E e \in 1..MaxSend : PostDone(e) \/ ReadEnd(e)

\* ReadChunk(e) can be taken: its guard.
ReadReady(e) ==
    /\ eps[e].pc = "streaming"
    /\ eps[e].rest # <<>>
    /\ LET r == ProcessChunk(eps[e].content, Head(eps[e].rest))
       IN r.refresh > 0 => CanIssue(reqs, FetchSessionsCall)

\* The scheduling of a send episode: while a step of Resolves is ready, one
\* is eventually taken, and a chunk that stays ready to be read is read.
\* The second conjunct is WF_vars(ReadChunk(e)) with ENABLED written out as
\* the guard of the action.
Fairness ==
    /\ WF_vars(Resolves)
    /\ \A e \in 1..MaxSend : <>[]ReadReady(e) => []<><<ReadChunk(e)>>_vars

\* Browsing and sending, under that scheduling.
SpecLive == Init /\ [][Next]_vars /\ Fairness

\* The document operations of the document panel.
DocOps ==
    \/ \E f \in Files : DeleteDocument(f)
    \/ \E r \in reqs : ServeDeleteDocument(r)
    \/ \E r \in reqs : DeleteDocumentDone(r)

\* The deletes the handler returns from before it sends anything.
DeclineOps ==
    \/ \E id \in AllIds : DeleteSessionDeclined(id)
    \/ \E f \in Files : DeleteDocumentDeclined(f)
    \/ \E f \in Files : DeleteDocumentNoSession(f)

\* Browsing, the session-list and document operations and the deletes that
\* are not sent.
NextDelete == Browse \/ ListOps \/ DocOps \/ DeclineOps

SpecDelete == Init /\ [][NextDelete]_vars

\* The uploads of the file dialog.
UploadOps ==
    \/ \E u \in 1..MaxUpload, files \in FileLists : FileUpload(u, files)
    \/ \E u \in 1..MaxUpload : ServeUpload(u)
    \/ \E u \in 1..MaxUpload : UploadDone(u)
    \/ \E u \in 1..MaxUpload : ServeUploadFetch(u)
    \/ \E u \in 1..MaxUpload : UploadFetchDone(u)
    \/ \E u \in 1..MaxUpload : UploadSleepDone(u)
    \/ \E u \in 1..MaxUpload : UploadRefetched(u)
    \/ \E u \in 1..MaxUpload : UploadRelisted(u)

\* Browsing and the session-list operations.
NextList == Browse \/ ListOps

SpecList == Init /\ [][NextList]_vars

\* Browsing and the document operations.
NextDocs == Browse \/ DocOps

SpecDocs == Init /\ [][NextDocs]_vars

\* Browsing and uploading.
NextUpload == Browse \/ UploadOps

SpecUpload == Init /\ [][NextUpload]_vars

\* The uploads of the file dialog in the per-file strategy.
PerFileOps ==
    \/ \E u \in 1..MaxUpload, files \in FileLists : PerFileUpload(u, files)
    \/ \E u \in 1..MaxUpload : ServeFilesCreate(u)
    \/ \E u \in 1..MaxUpload : FilesCreateDone(u)
    \/ \E u \in 1..MaxUpload : ServeFileUpload(u)
    \/ \E u \in 1..MaxUpload : FileUploadDone(u)

\* Browsing and uploading file by file.
NextPerFile == Browse \/ PerFileOps

SpecPerFile == Init /\ [][NextPerFile]_vars

\* Browsing, sending and uploading.
NextSendUpload == Browse \/ Send \/ UploadOps

SpecSendUpload == Init /\ [][NextSendUpload]_vars

\* Browsing, sending and the session-list operations together.
NextAll == Browse \/ Send \/ ListOps

SpecAll == Init /\ [][NextAll]_vars

(***************************************************************************)
(* The streaming loop alone: an episode on session s1 whose response has   *)
(* just arrived, for every body of DecodeBodies and every way of cutting   *)
(* it into at most MaxChunks non-empty chunks.                             *)
(***************************************************************************)
\* A record whose payload is not JSON.
BadRecord == DataPrefix \o <<"{", "x">> \o RecordSep

\* A body with a malformed record between two tokens, ended by the transport
\* without a [DONE] record.
MalformedBody == TokenRecord(<<"a">>) \o BadRecord \o TokenRecord(<<"b">>)

\* The body of the specification's scenario: tokens "He" and "llo", then [DONE].
HelloBody == TokenRecord(<<"H", "e">>) \o TokenRecord(<<"l", "l", "o">>) \o DoneRecord

DecodeBodies ==
    { HelloBody,
      TokenRecord(<<ByteC3, ByteA9>>) \o DoneRecord \o TokenRecord(<<"x">>),
      MalformedBody }

\* The ways of cutting `bytes` into at most n non-empty chunks.
RECURSIVE Chunkings(_, _)
Chunkings(bytes, n) ==
    IF n <= 1 \/ Len(bytes) <= 1 THEN {<<bytes>>}
    ELSE {<<bytes>>} \cup
         UNION { { <<SubSeq(bytes, 1, c)>> \o rest :
                     rest \in Chunkings(SubSeq(bytes, c + 1, Len(bytes)), n - 1) } :
                 c \in 1..(Len(bytes) - 1) }

DecodeText == <<"h", "i">>

InitDecode ==
    /\ InitServer
    /\ urlSessionId = "s1"
    /\ sessions = srvSessions
    /\ documents = srvDocs["s1"]
    /\ isLoading = TRUE
    /\ reqs = {}
    /\ \E bytes \in DecodeBodies : \E chunks \in Chunkings(bytes, MaxChunks) :
          /\ eps = [e \in 1..MaxSend |->
                      IF e = 1
                      THEN [IdleEpisode EXCEPT !.pc = "streaming", !.target = "s1",
                                               !.text = DecodeText,
                                               !.rest = chunks, !.body = chunks]
                      ELSE IdleEpisode]
          /\ messages = srvMsgs["s1"] \o <<Message("user", DecodeText, "s1", 1),
                                           Message("assistant", <<>>, "s1", 1)>>
    /\ InitUpload
    /\ deletedActive = FALSE
    /\ userActs = MaxUser
    /\ faults = 0
    /\ declined = <<>>

NextDecode ==
    \/ \E e \in 1..MaxSend : ReadChunk(e)
    \/ \E e \in 1..MaxSend : ReadEnd(e)
    \/ \E r \in reqs : ServeList(r)
    \/ \E r \in reqs : FetchSessionsDone(r)

SpecDecode == InitDecode /\ [][NextDecode]_vars

(***************************************************************************)
(* Properties.                                                             *)
(***************************************************************************)
Episodes == 1..MaxSend
Last(seq) == seq[Len(seq)]

\* What the loop makes of a body delivered as one chunk.
SingleChunkContent(body) == ProcessChunk(<<>>, Concat(body)).content

\* C1: however the body is cut into chunks, once the stream has ended the
\* assistant message holds the content that the same body gives as one chunk.
C1_ChunkingInvariant ==
    \A e \in Episodes :
        (eps[e].pc = "done" /\ eps[e].body # <<>> /\ ~eps[e].failed)
            => /\ messages # <<>>
               /\ Last(messages).role = "assistant"
               /\ Last(messages).content = SingleChunkContent(eps[e].body)

\* C2: at most one invocation of handleSendMessage is in flight.
C2_OneEpisodeInFlight ==
    Cardinality({e \in Episodes : InFlight(e)}) <= 1

\* The step is the handler of request r, whose response has arrived.
Handled(r) == r \in reqs /\ r.phase # "sent" /\ r \notin reqs'

\* C3: the response of a session fetch for an id that is no longer the
\* active one changes neither list and does not navigate.
C3_StaleFetchDiscarded ==
    [][\A r \in reqs :
          (r.kind = "fetch" /\ Handled(r) /\ r.sid # urlSessionId)
              => UNCHANGED <<messages, documents, urlSessionId>>]_vars

\* C4: a step of a send episode whose target is not the active session
\* leaves the message list alone.
C4_StaleStreamInert ==
    [][\A e \in Episodes :
          (eps[e].pc \in {"posting", "streaming"} /\ eps'[e] # eps[e]
             /\ eps[e].target # urlSessionId)
              => messages' = messages]_vars

\* C5: every message of the list belongs to the active session.
C5_MessagesOfActiveSession ==
    \A i \in 1..Len(messages) : messages[i].sid = urlSessionId

\* C6: a send started with no active session has made the server create
\* exactly one session, listed on the client, and its user message is posted
\* to that session and appended while that session is the active one.
C6_LazySendUsesNewSession ==
    [][\A e \in Episodes :
          (eps[e].lazy /\ eps[e].pc = "sleep" /\ eps'[e].pc = "posting")
              => /\ eps[e].created = 1
                 /\ eps'[e].target = eps[e].newId
                 /\ eps[e].newId \in ListedIds
                 /\ Last(messages') = Message("user", eps[e].text, eps[e].newId, e)
                 /\ urlSessionId' = eps[e].newId]_vars

\* C7: when a send episode ends by a failure, the error message is the last
\* message, isLoading is false and the episode has left no assistant message
\* with empty content.
C7_FailureLeavesNoEmptyPlaceholder ==
    [][\A e \in Episodes :
          (InFlight(e) /\ eps'[e].pc = "done" /\ eps'[e].failed)
              => /\ isLoading' = FALSE
                 /\ Last(messages') = ErrorMessage(e)
                 /\ \A i \in 1..Len(messages') :
                       ~(messages'[i].by = e /\ messages'[i].role = "assistant"
                                             /\ messages'[i].content = <<>>)]_vars

\* C8: once [DONE] was decoded, nothing more is appended to the assistant
\* message of that episode.
C8_DoneStopsDecoding ==
    [][\A e \in Episodes :
          eps[e].doneSeen => (eps'[e].content = eps[e].content /\ messages' = messages)]_vars

\* C9: after the delete of the active session succeeded, and until the user
\* acts again, no session is active and both lists are empty.
C9_DeletedActiveIsEmpty ==
    deletedActive => (urlSessionId = None /\ messages = <<>> /\ documents = <<>>)

\* C10: the handler of a successful rename leaves the list with the same
\* ids, the renamed entry carrying the new title, as on the server, and the
\* other entries as they were.
C10_RenameUpdatesList ==
    [][\A r \in reqs :
          (r.kind = "rename" /\ r.phase = "ok" /\ Handled(r))
              => /\ Len(sessions') = Len(sessions)
                 /\ \A i \in 1..Len(sessions) :
                       /\ sessions'[i].id = sessions[i].id
                       /\ sessions[i].id = r.sid => sessions'[i].title = r.title
                       /\ sessions[i].id # r.sid => sessions'[i] = sessions[i]
                       /\ \A j \in 1..Len(srvSessions) :
                             (srvSessions[j].id = r.sid /\ sessions[i].id = r.sid)
                                 => sessions'[i].title = srvSessions[j].title]_vars

\* C11: the handler of a successful session delete leaves the list without
\* the deleted id and with every other entry, in the order it had.
C11_DeleteUpdatesList ==
    [][\A r \in reqs :
          (r.kind = "delete" /\ r.phase = "ok" /\ Handled(r))
              => sessions' = SelectSeq(sessions, LAMBDA s : s.id # r.sid)]_vars

\* C12: the handler of a failed rename or delete leaves the session list,
\* both lists and the active id as they were; a failed create of a lazy send
\* leaves them and isLoading as they were and ends the episode, which issues
\* no message request.
C12_FailureLeavesState ==
    [][/\ \A r \in reqs :
             (r.kind \in {"rename", "delete"} /\ r.phase \in {"bad", "throw"} /\ Handled(r))
                 => UNCHANGED <<sessions, messages, documents, urlSessionId>>
       /\ \A e \in Episodes :
             (eps[e].pc = "created" /\ eps[e].resp # "ok" /\ eps'[e] # eps[e])
                 => /\ UNCHANGED <<sessions, messages, documents, urlSessionId, isLoading>>
                    /\ eps'[e].pc = "done"]_vars

\* A lazy send whose create failed has ended with nothing shown and nothing loading.
C12_Witness ==
    \E e \in Episodes :
        /\ eps[e].pc = "done" /\ eps[e].lazy /\ eps[e].resp \in {"bad", "throw"}
        /\ messages = <<>> /\ ~isLoading /\ urlSessionId = None

\* The step is a read of a chunk by episode e.
ReadsChunk(e) ==
    /\ eps[e].pc = "streaming" /\ eps'[e].pc = "streaming"
    /\ eps[e].rest # <<>> /\ eps'[e].rest = Tail(eps[e].rest)

\* The step is the normal end of episode e: the reader reported done.
EndsNormally(e) ==
    eps[e].pc = "streaming" /\ eps'[e].pc = "done" /\ ~eps'[e].failed

HasError(msgs) == \E i \in 1..Len(msgs) : msgs[i].content = ErrorContent

\* C13: when the reader reports done and no [DONE] record was decoded, the
\* episode ends without an error message, the message list and the tokens
\* decoded so far are kept, and isLoading is false.
C13_TransportEndIsCompletion ==
    [][\A e \in Episodes :
          (eps[e].pc = "streaming" /\ eps[e].rest = <<>> /\ ~eps[e].doneSeen
             /\ eps'[e] # eps[e])
              => /\ eps'[e].pc = "done" /\ ~eps'[e].failed
                 /\ messages' = messages
                 /\ eps'[e].content = eps[e].content
                 /\ ~HasError(messages')
                 /\ isLoading' = FALSE]_vars

\* An episode whose body had no [DONE] has ended with its tokens shown.
C13_Witness ==
    \E e \in Episodes :
        /\ eps[e].pc = "done" /\ ~eps[e].doneSeen /\ ~eps[e].failed
        /\ eps[e].content # <<>> /\ Last(messages).content = eps[e].content
        /\ ~HasError(messages) /\ ~isLoading

\* The records of a decoded chunk that stand before its first [DONE] record.
RECURSIVE BeforeDone(_)
BeforeDone(lines) ==
    IF lines = <<>> \/ Head(lines) = DataPrefix \o DoneSentinel THEN <<>>
    ELSE <<Head(lines)>> \o BeforeDone(Tail(lines))

\* The token a record carries: none for a line that is no record, for a
\* payload that is not JSON and for JSON without a token.
TokenOf(line) ==
    IF StartsWith(line, DataPrefix) /\ ~JSONParse(SliceFrom(line, 6)).throws
    THEN JSONParse(SliceFrom(line, 6)).token
    ELSE <<>>

Malformed(line) == StartsWith(line, DataPrefix) /\ JSONParse(SliceFrom(line, 6)).throws

\* C14: a read of a chunk appends the tokens of all its well-formed token
\* records that stand before [DONE], those after a malformed record included;
\* the stream is not aborted and no error message appears; a chunk with no
\* well-formed token record changes neither the content nor the list.
C14_MalformedRecordSkipped ==
    [][\A e \in Episodes :
          ReadsChunk(e) =>
              LET recs == BeforeDone(Split(Utf8Decode(Head(eps[e].rest)), RecordSep))
                  toks == Concat([i \in 1..Len(recs) |-> TokenOf(recs[i])])
              IN /\ eps'[e].content = eps[e].content \o toks
                 /\ eps'[e].pc = "streaming" /\ ~eps'[e].failed
                 /\ Len(messages') = Len(messages)
                 /\ ~HasError(messages')
                 /\ toks = <<>> => messages' = messages]_vars

\* The body with the malformed record was read as one chunk and both tokens
\* around that record are in the assistant message.
C14_Witness ==
    \E e \in Episodes :
        /\ eps[e].body = <<MalformedBody>>
        /\ \E i \in 1..3 : Malformed(Split(MalformedBody, RecordSep)[i])
        /\ eps[e].pc = "done" /\ ~eps[e].failed
        /\ Last(messages).content = <<"a", "b">>

\* C15: when the stream of an episode completes, isLoading is false and the
\* episode has called fetchSessions.
C15_CompletionRefreshesList ==
    [][\A e \in Episodes :
          EndsNormally(e) => (isLoading' = FALSE /\ eps[e].doneSeen)]_vars

\* C16: an episode on session s1, with no other event, whose stream carried
\* the tokens "He" and "llo" and then [DONE] has left the list as it was
\* before the submit, followed by the user message and by the assistant
\* message "Hello".
C16_HelloScenario ==
    \A e \in Episodes :
        (eps[e].pc = "done" /\ ~eps[e].failed /\ eps[e].body # <<>>
           /\ Concat(eps[e].body) = HelloBody)
            => messages = srvMsgs[eps[e].target]
                            \o <<Message("user", eps[e].text, eps[e].target, e),
                                 Message("assistant", <<"H", "e", "l", "l", "o">>,
                                         eps[e].target, e)>>

\* C17: a read of a chunk by a streaming episode keeps the length of the
\* list and all its elements but the last, and the last element keeps its
\* role and has its content extended by the tokens parsed from the chunk.
C17_LastElementGrows ==
    [][\A e \in Episodes :
          ReadsChunk(e) =>
              LET toks == SubSeq(eps'[e].content, Len(eps[e].content) + 1,
                                 Len(eps'[e].content))
              IN /\ eps'[e].content = eps[e].content \o toks
                 /\ Len(messages') = Len(messages)
                 /\ \A i \in 1..(Len(messages) - 1) : messages'[i] = messages[i]
                 /\ messages # <<>> =>
                       /\ Last(messages').role = Last(messages).role
                       /\ Last(messages').content = Last(messages).content \o toks]_vars

\* The response to a session fetch that the step adds.
Answers(r, q) ==
    /\ r \in reqs /\ r.kind = "fetch" /\ r.phase = "sent"
    /\ q \in reqs' /\ q \notin reqs /\ q.kind = "fetch" /\ q.sid = r.sid /\ q.phase = "ok"

\* C18: a change of the route to a session id issues the fetch of that
\* session; a success response carries the server's lists of the session,
\* omitting only empty ones, and its handler makes them the message list and
\* the document list; the handler of a not-found response navigates to the
\* index route.
C18_RouteChangeLoadsSession ==
    [][/\ (urlSessionId' # urlSessionId /\ urlSessionId' # None)
             => (FetchSessionDataCall(urlSessionId') \in reqs'
                   /\ FetchSessionDataCall(urlSessionId') \notin reqs)
       /\ \A r \in reqs : \A q \in reqs' :
             Answers(r, q)
                 => /\ "messages" \notin q.data.omitted => q.data.messages = srvMsgs[r.sid]
                    /\ "documents" \notin q.data.omitted => q.data.documents = srvDocs[r.sid]
                    /\ "messages" \in q.data.omitted => srvMsgs[r.sid] = <<>>
                    /\ "documents" \in q.data.omitted => srvDocs[r.sid] = <<>>
       /\ \A r \in reqs :
             (r.kind = "fetch" /\ Handled(r))
                 => /\ r.phase = "ok" =>
                          /\ messages' = IF "messages" \in r.data.omitted
                                          THEN <<>> ELSE r.data.messages
                          /\ documents' = IF "documents" \in r.data.omitted
                                           THEN <<>> ELSE r.data.documents
                          /\ UNCHANGED urlSessionId
                    /\ r.phase = "bad" => urlSessionId' = None]_vars

\* Session s2 was selected and its fetch has resolved: the lists are the
\* server's lists of s2.
C18_Witness ==
    /\ urlSessionId = "s2"
    /\ \A r \in reqs : r.kind # "fetch"
    /\ messages = srvMsgs["s2"] /\ messages # <<>>
    /\ documents = srvDocs["s2"] /\ documents = <<>>

\* C19: a change of the route from a session to no session clears the
\* message list and the document list in the same step and issues no request.
C19_RouteToNoneClears ==
    [][(urlSessionId # None /\ urlSessionId' = None)
          => /\ messages' = <<>>
             /\ documents' = <<>>
             /\ reqs' \subseteq reqs]_vars

\* The active session was deleted, which changed the route to none: both
\* lists are empty and no session fetch is pending.
C19_Witness ==
    /\ deletedActive
    /\ urlSessionId = None
    /\ messages = <<>> /\ documents = <<>>
    /\ \A r \in reqs : r.kind # "fetch"
    /\ sessions # <<>>

\* C20: the handler of a successful document delete starts the fetch of the
\* session and leaves the document list to that fetch; the handler of a
\* failed document delete leaves the document list as it was.
C20_DocumentDeleteRefetches ==
    [][\A r \in reqs :
          (r.kind = "deldoc" /\ Handled(r))
              => /\ r.phase = "ok" => FetchSessionDataCall(r.sid) \in reqs'
                 /\ documents' = documents]_vars

Uploads == 1..MaxUpload

\* Upload u was started with no active session and its outcome reports a
\* non-zero successful count.
AdoptsNewSession(u) ==
    ups[u].isNew /\ ups[u].result.uploaded_count > 0

\* C21: when the session document of the session an upload created has
\* been awaited, the returned session id becomes the active id and an entry
\* with that id is put at the front of the session list; when the lists are
\* then set from the session document, that session is still the active one.
C21_UploadAdoptsSession ==
    [][\A u \in Uploads :
          /\ (AdoptsNewSession(u) /\ ups[u].pc = "fetched" /\ ups'[u].pc # "fetched")
                => /\ urlSessionId' = ups[u].result.session_id
                   /\ Len(sessions') = Len(sessions) + 1
                   /\ Prop(Head(sessions'), "id") = ups[u].result.session_id
                   /\ Tail(sessions') = sessions
          /\ (AdoptsNewSession(u) /\ ups[u].pc = "sleep" /\ ups'[u].pc # "sleep")
                => /\ urlSessionId' = ups[u].result.session_id
                   /\ messages' = OrEmpty(ups[u].data, "messages")
                   /\ documents' = OrEmpty(ups[u].data, "documents")]_vars

\* The step is one of upload u.
UploadSteps(u) == ups'[u] # ups[u]

Succeeded(u) == ups[u].resp = "ok" /\ ups[u].result.uploaded_count > 0

UploadFailureKinds == {"failed", "error"}

\* C24: the handler of an upload request that failed shows one failure
\* message, leaves the session list, both lists and the active id as they
\* were, and ends with isUploading false and an empty progress text.
C24_UploadFailure ==
    [][\A u \in Uploads :
          (ups[u].pc = "uploaded" /\ ups[u].resp \in {"bad", "throw"} /\ UploadSteps(u))
              => /\ Len(alerts') = Len(alerts) + 1
                 /\ Last(alerts').kind \in UploadFailureKinds
                 /\ UNCHANGED <<sessions, messages, documents, urlSessionId>>
                 /\ ups'[u].pc = "done"
                 /\ isUploading' = FALSE
                 /\ uploadProgress' = <<>>]_vars

\* An upload whose request failed has ended with a failure message shown.
C24_Witness ==
    \E u \in Uploads :
        /\ ups[u].pc = "done" /\ ups[u].resp \in {"bad", "throw"}
        /\ alerts # <<>> /\ Last(alerts).kind \in UploadFailureKinds
        /\ ~isUploading /\ uploadProgress = <<>>

\* The step is the one in which episode e, or upload u, puts the session it
\* created into the session list.
InsertsCreated(e) == eps[e].pc = "created" /\ eps[e].resp = "ok" /\ eps'[e].pc = "sleep"
InsertsUploaded(u) == ups[u].pc = "fetched" /\ ups[u].resp = "ok" /\ ups'[u].pc = "sleep"

\* C25: a session the client created, lazily on send or by an upload from
\* the index route, is put at index 0 of the session list and the entries
\* that were listed follow it in their order.
C25_CreatedSessionFirst ==
    [][/\ \A e \in Episodes :
             InsertsCreated(e)
                => /\ sessions' = <<Head(sessions')>> \o sessions
                   /\ Head(sessions') = ChatSession(eps[e].newId, NewSessionTitle(eps[e].text))
       /\ \A u \in Uploads :
             InsertsUploaded(u)
                => /\ sessions' = <<Head(sessions')>> \o sessions
                   /\ Head(sessions') = ups[u].data]_vars

\* The lazily created session n1 stands before the two listed sessions.
C25_Witness ==
    \E e \in Episodes :
        /\ eps[e].lazy /\ eps[e].pc = "sleep" /\ eps[e].newId = "n1"
        /\ Len(sessions) = 3
        /\ sessions[1].id = "n1" /\ sessions[2].id = "s1" /\ sessions[3].id = "s2"

\* No two entries of the document list docs have the same filename.
DistinctFilenames(docs) ==
    \A i, j \in 1..Len(docs) : docs[i].filename = docs[j].filename => i = j

\* The server handles the batch of upload u in this step, for session sid.
StoresBatch(u, sid) ==
    /\ ups[u].pc = "uploading" /\ ups'[u].pc = "uploaded" /\ ups'[u].resp = "ok"
    /\ ups'[u].result.session_id = sid

C27_ListFailureSilent ==
    [][\A r \in reqs :
          (r.kind = "list" /\ r.phase \in {"bad", "throw"} /\ Handled(r))
              => UNCHANGED <<sessions, urlSessionId, messages, documents, alerts>>]_vars

\* On the index route the list fetch of the mount failed and was handled:
\* nothing is listed, nothing is shown.
C27_Witness ==
    /\ urlSessionId = None /\ userActs = 0 /\ faults = 1 /\ reqs = {}
    /\ \A u \in Uploads : ups[u].pc = "idle"
    /\ sessions = <<>> /\ messages = <<>> /\ alerts = <<>>

\* C28: the read of a chunk changes no element of the message list other
\* than the assistant placeholder of the reading episode.
C28_TokenReplacesOwnPlaceholder ==
    [][\A e \in Episodes :
          ReadsChunk(e)
             => /\ Len(messages') = Len(messages)
                /\ \A i \in 1..Len(messages) :
                      messages'[i] # messages[i]
                         => messages[i].role = "assistant" /\ messages[i].by = e]_vars

\* A send-message request or stream of episode e is in flight.
Sending(e) == eps[e].pc \in {"posting", "streaming"}

\* C29: isLoading is true exactly in the states in which the send-message
\* request or the stream of some episode is in flight.
C29_LoadingIffInFlight ==
    isLoading <=> \E e \in Episodes : Sending(e)

\* C30: no two entries of the session list have the same id, and every
\* entry has a defined id.
C30_SessionIdsDistinct ==
    /\ \A i, j \in 1..Len(sessions) :
          Prop(sessions[i], "id") = Prop(sessions[j], "id") => i = j
    /\ \A i \in 1..Len(sessions) : Prop(sessions[i], "id") # Undefined

\* Upload u ran file by file and its loop has ended.
PerFileEnded(u) == ups[u].pc = "done" /\ ups[u].i > 0

\* A fetch of session sid is in flight.
FetchPending(sid) == \E r \in reqs : r.kind = "fetch" /\ r.sid = sid

\* C31: when the requests of a per-file batch and the fetches of its
\* session have all resolved, and that session is the active one, the
\* document list shown is the server's list of that session.  The batch is
\* the only thing the user did, it began with no request in flight and no
\* request failed.
C31_PerFileFinalDocuments ==
    \A u \in Uploads :
        (/\ PerFileEnded(u)
         /\ ups[u].uploadedCount > 0
         /\ \A v \in Uploads : ~UploadInFlight(v)
         /\ ~FetchPending(ups[u].target)
         /\ urlSessionId = ups[u].target
         /\ ups[u].quiet /\ userActs = 1 /\ faults = 0)
            => documents = srvDocs[ups[u].target]

\* C32: in a per-file batch the files posted so far are the first i files
\* of the batch, in their order; file i + 1 is posted only when the request
\* of file i has resolved; a request that failed is followed by the post of
\* the next file, with no message; and the handler of the last file's
\* response ends with every file posted once and isUploading false.
C32_PerFileSequence ==
    [][\A u \in Uploads :
          /\ ups'[u].i > 0 => ups'[u].sent = SubSeq(ups'[u].files, 1, ups'[u].i)
          /\ ups'[u].i # ups[u].i
                => /\ ups'[u].i = ups[u].i + 1
                   /\ ups[u].i > 0 => ups[u].pc = "pf_posted"
                   /\ ups'[u].pc = "pf_posting"
          /\ (ups[u].pc = "pf_posted" /\ UploadSteps(u))
                => /\ alerts' = alerts
                   /\ IF ups[u].i < Len(ups[u].files)
                      THEN /\ ups'[u].pc = "pf_posting"
                           /\ ups'[u].i = ups[u].i + 1
                           /\ isUploading' = isUploading
                      ELSE /\ ups'[u].pc = "done"
                           /\ ups'[u].sent = ups[u].files
                           /\ isUploading' = FALSE]_vars

\* The batch a.pdf, b, c has ended: one of its requests was not answered
\* with success, all three files were posted, and isUploading is false.
C32_Witness ==
    \E u \in Uploads :
        /\ PerFileEnded(u) /\ ups[u].files = <<FileA, FileB, FileC>>
        /\ ups[u].sent = ups[u].files
        /\ ups[u].uploadedCount = 2
        /\ ~isUploading

\* C33: the active id, the session of every request in flight and the id
\* of every entry of the session list are never the sentinel "new"; an
\* upload begun with no active session is posted to the sentinel; and the
\* navigation of an upload goes to the session_id of its outcome and starts
\* the fetch of that session.
C33_SentinelNeverActive ==
    [][/\ urlSessionId' # NewSentinel
       /\ \A r \in reqs' : r.sid # NewSentinel
       /\ \A i \in 1..Len(sessions') : Prop(sessions'[i], "id") # NewSentinel
       /\ \A u \in Uploads :
             /\ (ups[u].pc = "idle" /\ ups'[u].pc = "uploading" /\ urlSessionId = None)
                   => ups'[u].target = NewSentinel
             /\ (UploadSteps(u) /\ urlSessionId' # urlSessionId)
                   => /\ urlSessionId' = ups[u].result.session_id
                      /\ ups[u].result.session_id \in SrvIds
                      /\ FetchSessionDataCall(ups[u].result.session_id) \in reqs'
             /\ (UploadSteps(u) /\ reqs' # reqs)
                   => \A r \in reqs' \ reqs : r.kind = "list" \/ r.sid = ups[u].result.session_id]_vars

\* An upload posted to the sentinel has ended with the session the server
\* created, n1, as the active one.
C33_Witness ==
    \E u \in Uploads :
        /\ ups[u].pc = "done" /\ ups[u].target = NewSentinel /\ ups[u].resp = "ok"
        /\ ups[u].result.session_id = "n1"
        /\ urlSessionId = "n1"

\* C34: whenever a send episode is in flight, a state follows in which no
\* episode is in flight and isLoading is false.
C34_SendTerminates ==
    (\E e \in Episodes : InFlight(e)) ~> ((\A e \in Episodes : ~InFlight(e)) /\ ~isLoading)

\* A lazy send has ended on its success path and one has ended on a
\* failure path; isLoading is false.
C34_Witness ==
    /\ \E e \in Episodes : eps[e].pc = "done" /\ eps[e].lazy /\ eps[e].doneSeen /\ ~eps[e].failed
    /\ \E e \in Episodes : eps[e].pc = "done" /\ eps[e].failed
    /\ ~isLoading

\* C35: at most one upload is in flight, and isUploading is true exactly
\* while one is: the step that starts an upload is taken with isUploading
\* false and sets it, and isUploading becomes false only in the step that
\* ends the upload in flight.
C35_OneUploadInFlight ==
    [][/\ Cardinality({u \in Uploads : ups'[u].pc \notin {"idle", "done"}}) <= 1
       /\ isUploading' <=> \E u \in Uploads : ups'[u].pc \notin {"idle", "done"}
       /\ \A u \in Uploads :
             (ups[u].pc = "idle" /\ ups'[u].pc # "idle")
                => ~isUploading /\ isUploading' /\ UploadInFlight(u)'
       /\ (isUploading /\ ~isUploading')
             => \E u \in Uploads : UploadInFlight(u) /\ ups'[u].pc = "done"]_vars

\* A second upload is in flight after the first has ended.
C35_Witness ==
    /\ isUploading
    /\ \E u, v \in Uploads : ups[u].pc = "done" /\ UploadInFlight(v)

\* The response of upload u is ok and reports no uploaded and no skipped file.
NothingProcessed(u) ==
    /\ ups[u].resp = "ok"
    /\ ups[u].result.uploaded_count + ups[u].result.skipped_count = 0

\* C36: the handler of an upload response that is ok and reports no
\* uploaded and no skipped file leaves the active id, the session list and
\* both lists as they were, starts no request and ends the upload.
C36_NothingProcessedNoChange ==
    [][\A u \in Uploads :
          (ups[u].pc = "uploaded" /\ NothingProcessed(u) /\ UploadSteps(u))
              => /\ UNCHANGED <<urlSessionId, sessions, messages, documents, reqs>>
                 /\ ups'[u].pc = "done"]_vars

\* An upload from the index route whose files all failed has ended: no
\* session is active and nothing is listed as a document.
C36_Witness ==
    \E u \in Uploads :
        /\ ups[u].pc = "done" /\ NothingProcessed(u) /\ ups[u].isNew
        /\ ups[u].result.failed_count = Len(ups[u].files)
        /\ urlSessionId = None /\ documents = <<>>
        /\ alerts # <<>> /\ Last(alerts).kind = "none_uploaded"

\* C37: a delete of a session or of a document that the user declines, and
\* a delete of a document asked for while no session is active, send no
\* request and leave the session list, both lists and the active id as
\* they were.
C37_DeclinedDeleteNoEffect ==
    [][declined' # declined
          => UNCHANGED <<reqs, sessions, messages, documents, urlSessionId>>]_vars

\* On the route of s1 the user has declined the delete of a document and
\* the delete of a session: s1, s2 and a.pdf are listed as they were and no
\* request is in flight.
C37_Witness ==
    /\ declined = <<"document", "session">>
    /\ urlSessionId = "s1" /\ reqs = {}
    /\ Len(sessions) = 2 /\ FileNames(documents) = {FileA}
    /\ srvDocs["s1"] = documents
====
